---------------------------- MODULE Spec2Model ----------------------------
(***************************************************************************)
(* A model of the task store of src/taskManager.js (class TaskManager),    *)
(* of the localStorage adapter of src/unnamed/part_004 (class              *)
(* StorageManager) and of the store that saves itself through the adapter, *)
(* src/unnamed/part_000 (class PersistentTaskManager).                     *)
(*                                                                         *)
(* JavaScript strings that the code transforms (title, description,        *)
(* priority) are sequences of one-character strings, so that trim() and    *)
(* toLowerCase() are computed and not assumed.  An absent value (null) is  *)
(* the empty sequence Null and a present one is the one-element sequence   *)
(* Some(x).  new Date().toISOString() is the reading of a clock that never *)
(* runs backwards; the reading is an integer number of ticks (the ISO text *)
(* of an instant is a one-to-one rendering of it).                         *)
(***************************************************************************)
EXTENDS Integers, Sequences, FiniteSets

VARIABLES
    tasks,      \* this.tasks: the sequence of task records
    nextId,     \* this.nextId
    now,        \* the latest reading of the clock (new Date())
    issued,     \* history: the ids handed out by addTask, in order
    op,         \* the operation called last
    args,       \* its arguments (a record of the arguments given)
    ret,        \* its outcome: [threw |-> BOOLEAN, val |-> value or message]
    localStorage,   \* the browser's localStorage: the keys present |-> text
    storageEnabled, \* whether localStorage can be used (calls on it throw if not)
    quota,          \* the size localStorage can hold
    storageManager, \* the StorageManager in use: Null, or Some of its fields
    autoSave,       \* this.autoSave of a PersistentTaskManager: Null, or Some(flag)
    unsaved,        \* history: what kept changes of the PersistentTaskManager
                    \* from being written, Null without one
    instance,       \* which PersistentTaskManager tasks, nextId, storageManager
                    \* and autoSave are the fields of
    standby,        \* the fields of the other PersistentTaskManager, Null
                    \* without one
    savedBy,        \* history: the instance whose write the substrate accepted
                    \* last, Null if none did
    readers,        \* the FileReaders started and the promises that wait for
                    \* them, in the order they were started
    download        \* the file the page offered for download last, Null if none

vars == <<tasks, nextId, now, issued, op, args, ret,
          localStorage, storageEnabled, quota, storageManager, autoSave, unsaved,
          instance, standby, savedBy, readers, download>>

\* the substrate and what persists the store
persistVars ==
    <<localStorage, storageEnabled, quota, storageManager, autoSave, unsaved>>

\* a second PersistentTaskManager on the same substrate
sharedVars == <<instance, standby, savedBy>>

\* the files read and written
fileVars == <<readers, download>>

\* what a TaskManager on its own leaves alone
aloneVars == <<persistVars, sharedVars, fileVars>>

-----------------------------------------------------------------------------
(* Bounds of the model *)

\* successful addTask calls in one behaviour
MaxAdds == 3

\* largest clock reading
MaxTime == 1

\* largest store getStats is applied to on its own
MaxTotal == 40

\* largest store getTasksByPriority is applied to on its own
MaxSorted == 4

\* the sizes a small and a large localStorage can hold, in tokens
QuotaSmall == 8

QuotaLarge == 60

\* the size a localStorage holds that has room for every snapshot
QuotaHuge == 200

\* successful addTask calls on PersistentTaskManagers in one behaviour
MaxPersisted == 2

\* importData calls in one behaviour
MaxImports == 2

\* the size of one chunk of the capacity probe ('x'.repeat(1024)), in tokens
ProbeChunk == 4

\* largest task list getDataIntegrityReport is applied to on its own
MaxChecked == 2

-----------------------------------------------------------------------------
(* Values *)

Null == <<>>

Some(x) == <<x>>

NoArgs == [none |-> TRUE]

Returned(v) == [threw |-> FALSE, val |-> v]

Threw(msg) == [threw |-> TRUE, val |-> msg]

-----------------------------------------------------------------------------
(* String.prototype.trim and String.prototype.toLowerCase *)

WhiteSpace == {" ", "\t", "\n"}

RECURSIVE trimStart(_)
trimStart(s) ==
    IF s # <<>> /\ Head(s) \in WhiteSpace THEN trimStart(Tail(s)) ELSE s

RECURSIVE trimEnd(_)
trimEnd(s) ==
    IF s # <<>> /\ s[Len(s)] \in WhiteSpace
    THEN trimEnd(SubSeq(s, 1, Len(s) - 1))
    ELSE s

trim(s) == trimEnd(trimStart(s))

UpperCase == <<"A","B","C","D","E","F","G","H","I","J","K","L","M",
               "N","O","P","Q","R","S","T","U","V","W","X","Y","Z">>

toLowerChar(c) ==
    LET LowerCase == <<"a","b","c","d","e","f","g","h","i","j","k","l","m",
                       "n","o","p","q","r","s","t","u","v","w","x","y","z">>
    IN  IF \E i \in DOMAIN UpperCase : UpperCase[i] = c
        THEN LowerCase[CHOOSE i \in DOMAIN UpperCase : UpperCase[i] = c]
        ELSE c

RECURSIVE toLowerCase(_)
toLowerCase(s) ==
    IF s = <<>> THEN <<>> ELSE <<toLowerChar(Head(s))>> \o toLowerCase(Tail(s))

-----------------------------------------------------------------------------
(* Number arithmetic: IEEE 754 binary64, as far as getStats uses it.       *)
(* The 53-bit significand of a double does not fit a 32-bit integer, so it *)
(* is held in five limbs of 13 bits, most significant first.  A positive   *)
(* double is [q |-> the limbs of its significand Q, 2^52 <= Q < 2^53,      *)
(* e |-> the binary exponent of Q's leading bit]; its value is             *)
(* Q * 2^(e - 52).  Zero is FZero.  Division and multiplication round the  *)
(* exact result to nearest, ties to even, as the Number type requires.     *)

\* the significand width of a Number
SignificandBits == 53

LimbBits == 13

LimbBase == 2^LimbBits

\* the significand: one bit in the leading limb, then four full limbs
FullLimbs == (SignificandBits - 1) \div LimbBits

FZero == [q |-> <<>>, e |-> 0]

\* ls \div d and ls % d for limbs ls and a small divisor d, r the remainder
\* carried in from the left
RECURSIVE divLimbs(_, _, _)
divLimbs(ls, d, r) ==
    IF ls = <<>> THEN [q |-> <<>>, r |-> r]
    ELSE LET cur  == r * LimbBase + Head(ls)
             rest == divLimbs(Tail(ls), d, cur % d)
         IN  [q |-> <<cur \div d>> \o rest.q, r |-> rest.r]

\* ls * k + carry for limbs ls and a small factor k
RECURSIVE mulLimbs(_, _, _)
mulLimbs(ls, k, carry) ==
    IF ls = <<>> THEN (IF carry = 0 THEN <<>> ELSE <<carry>>)
    ELSE LET v == ls[Len(ls)] * k + carry IN
         mulLimbs(SubSeq(ls, 1, Len(ls) - 1), k, v \div LimbBase)
            \o <<v % LimbBase>>

RECURSIVE limbsToInt(_)
limbsToInt(ls) ==
    IF ls = <<>> THEN 0
    ELSE limbsToInt(SubSeq(ls, 1, Len(ls) - 1)) * LimbBase + ls[Len(ls)]

RECURSIVE stripZeroLimbs(_)
stripZeroLimbs(ls) ==
    IF ls # <<>> /\ Head(ls) = 0 THEN stripZeroLimbs(Tail(ls)) ELSE ls

\* the number of bits of n > 0
RECURSIVE bitLength(_)
bitLength(n) == IF n = 0 THEN 0 ELSE 1 + bitLength(n \div 2)

\* round to nearest, ties to even: q is the truncated significand, whose
\* leading bit has exponent e, and the part cut off is twiceRem / (2 * d)
\* of a unit in the last place
roundToEven(q, e, twiceRem, d) ==
    IF twiceRem > d \/ (twiceRem = d /\ q[Len(q)] % 2 = 1)
    THEN LET up == mulLimbs(q, 1, 1) IN
         IF Head(up) = 2 THEN [q |-> <<1>> \o [i \in 1..FullLimbs |-> 0], e |-> e + 1]
                         ELSE [q |-> up, e |-> e]
    ELSE [q |-> q, e |-> e]

\* the least k with c * 2^k >= t, for 0 < c <= t
RECURSIVE normShift(_, _)
normShift(c, t) == IF c >= t THEN 0 ELSE 1 + normShift(2 * c, t)

\* the double c / t, for integers 0 <= c <= t, 0 < t
fdiv(c, t) ==
    IF c = 0 THEN FZero
    ELSE LET k == normShift(c, t)
             d == divLimbs(<<c * 2^k>> \o [i \in 1..FullLimbs |-> 0], t, 0)
         IN  roundToEven(d.q, 0 - k, 2 * d.r, t)

\* the double x * k, for a double x and a small integer k > 0
fmul(x, k) ==
    IF x = FZero THEN FZero
    ELSE LET p == mulLimbs(x.q, k, 0)
             s == (Len(p) - 1 - FullLimbs) * LimbBits + bitLength(Head(p)) - 1
             d == divLimbs(p, 2^s, 0)
         IN  roundToEven(stripZeroLimbs(d.q), x.e + s, 2 * d.r, 2^s)

\* Math.round: floor(x + 1/2), computed as (floor(2x) + 1) \div 2
mathRound(x) ==
    IF x = FZero THEN 0
    ELSE LET shift == SignificandBits - 2 - x.e
             kept  == SubSeq(x.q, 1, Len(x.q) - (shift \div LimbBits))
             twice == limbsToInt(divLimbs(kept, 2^(shift % LimbBits), 0).q)
         IN  (twice + 1) \div 2

-----------------------------------------------------------------------------
(* TaskManager: helpers on the task sequence *)

\* Array.prototype.findIndex(t => t.id === id): first index, 0 for -1
findIndex(ts, id) ==
    IF \E i \in 1..Len(ts) : ts[i].id = id
    THEN CHOOSE i \in 1..Len(ts) :
            /\ ts[i].id = id
            /\ \A j \in 1..(i - 1) : ts[j].id # id
    ELSE 0

\* mutant of splice: splice(index), which removes up to the end
spliceToEnd(ts, i) == SubSeq(ts, 1, i - 1)

\* Array.prototype.splice(index, 1)
splice(ts, i) == SubSeq(ts, 1, i - 1) \o SubSeq(ts, i + 1, Len(ts))

\* the default parameter values of addTask
DefaultDescription == <<>>

DefaultPriority == <<"m","e","d","i","u","m">>

\* the object literal of addTask
newTask(id, a, t) ==
    [ id          |-> id,
      title       |-> trim(a.title),
      description |-> trim(IF "description" \in DOMAIN a THEN a.description
                                ELSE DefaultDescription),
      priority    |-> toLowerCase(IF "priority" \in DOMAIN a THEN a.priority
                                       ELSE DefaultPriority),
      status      |-> "pending",
      createdAt   |-> t,
      completedAt |-> Null ]

\* mutant of titleMissing: the title is tested without being trimmed
titleMissingUntrimmed(a) == a.title = <<>>

\* the guard of addTask: !title || title.trim() === ''
titleMissing(a) == a.title = <<>> \/ trim(a.title) = <<>>

TitleRequired == "Task title is required"

-----------------------------------------------------------------------------
(* TaskManager: the operations.  The arguments are strings and numbers, as *)
(* every caller passes them; t is the reading of the clock the operation   *)
(* takes, if it takes one (an operation that reads no clock is listed once, *)
(* with t = now).                                                          *)

constructor ==
    /\ tasks = <<>>
    /\ nextId = 1

\* mutant of addTask: the id is taken from the length of the list
addTaskIdFromLength(a, t) ==
    /\ op' = "addTask"
    /\ args' = a
    /\ IF titleMissing(a)
       THEN /\ ret' = Threw(TitleRequired)
            /\ UNCHANGED <<tasks, nextId, now, issued>>
       ELSE /\ Len(issued) < MaxAdds
            /\ t >= now
            /\ now' = t
            /\ nextId' = nextId + 1
            /\ tasks' = Append(tasks, newTask(Len(tasks) + 1, a, t))
            /\ issued' = Append(issued, Len(tasks) + 1)
            /\ ret' = Returned(newTask(Len(tasks) + 1, a, t))

addTask(a, t) ==
    /\ op' = "addTask"
    /\ args' = a
    /\ IF titleMissing(a)
       THEN /\ ret' = Threw(TitleRequired)
            /\ UNCHANGED <<tasks, nextId, now, issued>>
       ELSE /\ Len(issued) < MaxAdds
            /\ t >= now
            /\ now' = t
            /\ nextId' = nextId + 1
            /\ tasks' = Append(tasks, newTask(nextId, a, t))
            /\ issued' = Append(issued, nextId)
            /\ ret' = Returned(newTask(nextId, a, t))

\* mutant of completeTask: the status is set, the completion time is not
completeTaskNoTimestamp(id, t) ==
    /\ op' = "completeTask"
    /\ args' = [id |-> id]
    /\ LET i == findIndex(tasks, id) IN
       IF i # 0
       THEN /\ t >= now
            /\ now' = t
            /\ tasks' = [tasks EXCEPT ![i].status = "completed"]
            /\ ret' = Returned(TRUE)
            /\ UNCHANGED <<nextId, issued>>
       ELSE /\ t = now
            /\ ret' = Returned(FALSE)
            /\ UNCHANGED <<tasks, nextId, now, issued>>

\* mutant of completeTask: the status is toggled
completeTaskToggle(id, t) ==
    /\ op' = "completeTask"
    /\ args' = [id |-> id]
    /\ LET i == findIndex(tasks, id) IN
       IF i # 0
       THEN /\ t >= now
            /\ now' = t
            /\ tasks' = [tasks EXCEPT
                           ![i].status = IF @ = "pending" THEN "completed"
                                                          ELSE "pending",
                           ![i].completedAt = Some(t)]
            /\ ret' = Returned(TRUE)
            /\ UNCHANGED <<nextId, issued>>
       ELSE /\ t = now
            /\ ret' = Returned(FALSE)
            /\ UNCHANGED <<tasks, nextId, now, issued>>

completeTask(id, t) ==
    /\ op' = "completeTask"
    /\ args' = [id |-> id]
    /\ LET i == findIndex(tasks, id) IN
       IF i # 0
       THEN /\ t >= now
            /\ now' = t
            /\ tasks' = [tasks EXCEPT ![i].status = "completed",
                                      ![i].completedAt = Some(t)]
            /\ ret' = Returned(TRUE)
            /\ UNCHANGED <<nextId, issued>>
       ELSE /\ t = now
            /\ ret' = Returned(FALSE)
            /\ UNCHANGED <<tasks, nextId, now, issued>>

\* mutant of deleteTask: deleting the newest task gives its id back
deleteTaskReclaimId(id) ==
    /\ op' = "deleteTask"
    /\ args' = [id |-> id]
    /\ LET i == findIndex(tasks, id) IN
       IF i # 0
       THEN /\ tasks' = splice(tasks, i)
            /\ nextId' = IF id = nextId - 1 THEN nextId - 1 ELSE nextId
            /\ ret' = Returned(TRUE)
       ELSE /\ tasks' = tasks
            /\ nextId' = nextId
            /\ ret' = Returned(FALSE)
    /\ UNCHANGED <<now, issued>>

deleteTask(id) ==
    /\ op' = "deleteTask"
    /\ args' = [id |-> id]
    /\ LET i == findIndex(tasks, id) IN
       IF i # 0
       THEN /\ tasks' = splice(tasks, i)
            /\ ret' = Returned(TRUE)
       ELSE /\ tasks' = tasks
            /\ ret' = Returned(FALSE)
    /\ UNCHANGED <<nextId, now, issued>>

\* mutant of clearAllTasks: the counter is reset, the list is kept
clearAllTasksKeepList ==
    /\ op' = "clearAllTasks"
    /\ args' = NoArgs
    /\ tasks' = tasks
    /\ nextId' = 1
    /\ ret' = Returned(Null)
    /\ UNCHANGED <<now, issued>>

clearAllTasks ==
    /\ op' = "clearAllTasks"
    /\ args' = NoArgs
    /\ tasks' = <<>>
    /\ nextId' = 1
    /\ ret' = Returned(Null)
    /\ UNCHANGED <<now, issued>>

-----------------------------------------------------------------------------
(* TaskManager: the queries *)

\* getTasks(status = 'all')
\* mutant of getTasksOf: a filter that lets every task through
getTasksOfUnfiltered(ts, status) == ts

getTasksOf(ts, status) ==
    IF status = "all" THEN ts
    ELSE SelectSeq(ts, LAMBDA task : task.status = status)

\* getTaskById(id): find(...) || null
getTaskByIdOf(ts, id) ==
    IF findIndex(ts, id) # 0 THEN Some(ts[findIndex(ts, id)]) ELSE Null

\* mutant of getStatsOf: the completed tasks are looked up as 'complete'
getStatsOfMisspelt(ts) ==
    LET total     == Len(ts)
        completed == Len(SelectSeq(ts, LAMBDA t : t.status = "complete"))
        pending   == total - completed
    IN  [ total          |-> total,
          completed      |-> completed,
          pending        |-> pending,
          completionRate |-> IF total > 0
                             THEN mathRound(fmul(fdiv(completed, total), 100))
                             ELSE 0 ]

\* getStats()
getStatsOf(ts) ==
    LET total     == Len(ts)
        completed == Len(SelectSeq(ts, LAMBDA t : t.status = "completed"))
        pending   == total - completed
    IN  [ total          |-> total,
          completed      |-> completed,
          pending        |-> pending,
          completionRate |-> IF total > 0
                             THEN mathRound(fmul(fdiv(completed, total), 100))
                             ELSE 0 ]

query(name, a, v) ==
    /\ op' = name
    /\ args' = a
    /\ ret' = Returned(v)
    /\ UNCHANGED <<tasks, nextId, now, issued>>

getTasks(a) ==
    query("getTasks", a,
          getTasksOf(tasks, IF "status" \in DOMAIN a THEN a.status ELSE "all"))

getTaskById(id) == query("getTaskById", [id |-> id], getTaskByIdOf(tasks, id))

getStats == query("getStats", NoArgs, getStatsOf(tasks))

\* the priorityOrder table of getTasksByPriority, and "|| 0"
priorityRank(p) ==
    IF p = <<"h","i","g","h">> THEN 3
    ELSE IF p = <<"m","e","d","i","u","m">> THEN 2
    ELSE IF p = <<"l","o","w">> THEN 1
    ELSE 0

\* the comparator given to sort
comparePriority(order, a, b) ==
    IF order = "desc"
    THEN priorityRank(b.priority) - priorityRank(a.priority)
    ELSE priorityRank(a.priority) - priorityRank(b.priority)

\* mutant of insertSorted: a sort that is not stable, x goes in front of
\* the elements it ties with
RECURSIVE insertSortedUnstable(_, _, _)
insertSortedUnstable(sorted, x, order) ==
    IF sorted = <<>> THEN <<x>>
    ELSE IF comparePriority(order, Head(sorted), x) < 0
         THEN <<Head(sorted)>> \o insertSortedUnstable(Tail(sorted), x, order)
         ELSE <<x>> \o sorted

\* Array.prototype.sort is stable: x goes behind every element that does
\* not compare greater than it
RECURSIVE insertSorted(_, _, _)
insertSorted(sorted, x, order) ==
    IF sorted = <<>> THEN <<x>>
    ELSE IF comparePriority(order, Head(sorted), x) <= 0
         THEN <<Head(sorted)>> \o insertSorted(Tail(sorted), x, order)
         ELSE <<x>> \o sorted

RECURSIVE sortByPriority(_, _)
sortByPriority(ts, order) ==
    IF ts = <<>> THEN <<>>
    ELSE insertSorted(sortByPriority(SubSeq(ts, 1, Len(ts) - 1), order),
                      ts[Len(ts)], order)

\* getTasksByPriority(order = 'desc')
getTasksByPriority(a) ==
    query("getTasksByPriority", a,
          sortByPriority(tasks, IF "order" \in DOMAIN a THEN a.order ELSE "desc"))

-----------------------------------------------------------------------------
(* JavaScript values and JSON text (src/unnamed/part_004: StorageManager)   *)
(*                                                                         *)
(* A value that goes through JSON.stringify / JSON.parse is a pair         *)
(* <<type, content>>; the members of an object are <<name, value>> pairs   *)
(* in insertion order and the content of a string is the sequence of its   *)
(* characters.  A text is the sequence of its lexical tokens, each a pair  *)
(* <<kind, content>>, and the size of a text is the number of its tokens.  *)

Undefined == <<"undefined">>

JNull == <<"null">>

JBool(b) == <<"boolean", b>>

JNum(n) == <<"number", n>>

JStr(s) == <<"string", s>>

JArr(items) == <<"array", items>>

JObj(members) == <<"object", members>>

typeOf(v) == v[1]

content(v) == v[2]

\* !v
falsy(v) ==
    \/ typeOf(v) \in {"undefined", "null"}
    \/ typeOf(v) = "boolean" /\ ~content(v)
    \/ typeOf(v) = "number" /\ content(v) = 0
    \/ typeOf(v) = "string" /\ content(v) = <<>>

\* v.name, for a v that is neither null nor undefined
get(v, name) ==
    IF typeOf(v) = "object" /\ \E i \in 1..Len(content(v)) : content(v)[i][1] = name
    THEN LET members == content(v)
             last == CHOOSE i \in 1..Len(members) :
                        /\ members[i][1] = name
                        /\ \A j \in (i + 1)..Len(members) : members[j][1] # name
         IN  members[last][2]
    ELSE Undefined

\* a || b
orElse(a, b) == IF falsy(a) THEN b ELSE a

Punct(c) == <<"punct", c>>

Word(w) == <<"word", w>>

NumberToken(n) == <<"number", n>>

StringToken(s) == <<"string", s>>

\* texts joined with commas
RECURSIVE joinTexts(_)
joinTexts(texts) ==
    IF texts = <<>> THEN <<>>
    ELSE IF Len(texts) = 1 THEN texts[1]
    ELSE texts[1] \o <<Punct(",")>> \o joinTexts(Tail(texts))

\* mutant of stringify: every object is written as the empty object
RECURSIVE stringifyEmptied(_)
stringifyEmptied(v) ==
    IF typeOf(v) \in {"null", "undefined"} THEN <<Word("null")>>
    ELSE IF typeOf(v) = "boolean"
    THEN <<Word(IF content(v) THEN "true" ELSE "false")>>
    ELSE IF typeOf(v) = "number" THEN <<NumberToken(content(v))>>
    ELSE IF typeOf(v) = "string" THEN <<StringToken(content(v))>>
    ELSE IF typeOf(v) = "array"
    THEN <<Punct("[")>>
            \o joinTexts([i \in 1..Len(content(v)) |->
                    stringifyEmptied(content(v)[i])])
            \o <<Punct("]")>>
    ELSE <<Punct("{"), Punct("}")>>

\* JSON.stringify(v) for a v that is not undefined: an undefined element of
\* an array is written as null and an undefined member of an object is left
\* out
RECURSIVE stringify(_)
stringify(v) ==
    IF typeOf(v) \in {"null", "undefined"} THEN <<Word("null")>>
    ELSE IF typeOf(v) = "boolean"
    THEN <<Word(IF content(v) THEN "true" ELSE "false")>>
    ELSE IF typeOf(v) = "number" THEN <<NumberToken(content(v))>>
    ELSE IF typeOf(v) = "string" THEN <<StringToken(content(v))>>
    ELSE IF typeOf(v) = "array"
    THEN <<Punct("[")>>
            \o joinTexts([i \in 1..Len(content(v)) |-> stringify(content(v)[i])])
            \o <<Punct("]")>>
    ELSE LET kept == SelectSeq(content(v), LAMBDA m : typeOf(m[2]) # "undefined")
         IN  <<Punct("{")>>
                \o joinTexts([i \in 1..Len(kept) |->
                        << <<"key", kept[i][1]>>, Punct(":") >>
                            \o stringify(kept[i][2])])
                \o <<Punct("}")>>

\* the text setItem stores for JSON.stringify(data): JSON.stringify(undefined)
\* is undefined, which setItem turns into the text undefined
serialized(data) ==
    IF typeOf(data) = "undefined" THEN <<Word("undefined")>> ELSE stringify(data)

\* JSON.parse reads a text token by token.  A frame is a value under
\* construction: the whole text ("top"), an array or an object, with the
\* items read so far, the member name read last and what may come next.
Frame(kind, expect) == [kind |-> kind, items |-> <<>>, key |-> "", expect |-> expect]

parseStart == [ok |-> TRUE, stack |-> <<Frame("top", "value")>>]

SyntaxError == [ok |-> FALSE, stack |-> <<>>]

\* the members of an object with name |-> v set: a repeated name keeps its
\* place and takes the later value
putMember(members, name, v) ==
    IF \E i \in 1..Len(members) : members[i][1] = name
    THEN [i \in 1..Len(members) |->
            IF members[i][1] = name THEN <<name, v>> ELSE members[i]]
    ELSE Append(members, <<name, v>>)

\* the value v is complete: it goes into the innermost open frame
deliver(stack, v) ==
    LET f == stack[Len(stack)]
        g == [f EXCEPT
                !.items  = IF f.kind = "object" THEN putMember(f.items, f.key, v)
                           ELSE Append(f.items, v),
                !.expect = IF f.kind = "top" THEN "end" ELSE "commaOrClose"]
    IN  [ok |-> TRUE, stack |-> [stack EXCEPT ![Len(stack)] = g]]

expectOf(stack, e) ==
    [ok |-> TRUE, stack |-> [stack EXCEPT ![Len(stack)].expect = e]]

parseToken(state, token) ==
    IF ~state.ok THEN state
    ELSE
    LET stack == state.stack
        f     == stack[Len(stack)]
        below == SubSeq(stack, 1, Len(stack) - 1)
        value == f.expect \in {"value", "valueOrClose"}
    IN  IF token[1] = "number" THEN
            IF value THEN deliver(stack, JNum(token[2])) ELSE SyntaxError
        ELSE IF token[1] = "string" THEN
            IF value THEN deliver(stack, JStr(token[2])) ELSE SyntaxError
        ELSE IF token[1] = "word" THEN
            IF value /\ token[2] = "null" THEN deliver(stack, JNull)
            ELSE IF value /\ token[2] = "true" THEN deliver(stack, JBool(TRUE))
            ELSE IF value /\ token[2] = "false" THEN deliver(stack, JBool(FALSE))
            ELSE SyntaxError
        ELSE IF token[1] = "key" THEN
            IF f.kind = "object" /\ f.expect \in {"key", "keyOrClose"}
            THEN [ok |-> TRUE,
                  stack |-> [stack EXCEPT ![Len(stack)].key = token[2],
                                          ![Len(stack)].expect = "colon"]]
            ELSE SyntaxError
        ELSE IF token[2] = "[" THEN
            IF value
            THEN [ok |-> TRUE, stack |-> Append(stack, Frame("array", "valueOrClose"))]
            ELSE SyntaxError
        ELSE IF token[2] = "{" THEN
            IF value
            THEN [ok |-> TRUE, stack |-> Append(stack, Frame("object", "keyOrClose"))]
            ELSE SyntaxError
        ELSE IF token[2] = "]" THEN
            IF f.kind = "array" /\ f.expect \in {"valueOrClose", "commaOrClose"}
            THEN deliver(below, JArr(f.items))
            ELSE SyntaxError
        ELSE IF token[2] = "}" THEN
            IF f.kind = "object" /\ f.expect \in {"keyOrClose", "commaOrClose"}
            THEN deliver(below, JObj(f.items))
            ELSE SyntaxError
        ELSE IF token[2] = "," THEN
            IF f.expect = "commaOrClose"
            THEN expectOf(stack, IF f.kind = "array" THEN "value" ELSE "key")
            ELSE SyntaxError
        ELSE IF token[2] = ":" THEN
            IF f.expect = "colon" THEN expectOf(stack, "value") ELSE SyntaxError
        ELSE SyntaxError

\* the tokens text[lo..hi] read in order, from state; reading stops at the
\* first token that is out of place.  The state reached after the first
\* half is the one element of a set, so that it is computed once.
RECURSIVE parseTokens(_, _, _, _)
parseTokens(state, text, lo, hi) ==
    IF lo > hi THEN state
    ELSE IF lo = hi THEN parseToken(state, text[lo])
    ELSE LET mid == (lo + hi) \div 2
         IN  CHOOSE final \in
                { IF left.ok THEN parseTokens(left, text, mid + 1, hi) ELSE left :
                    left \in { parseTokens(state, text, lo, mid) } } : TRUE

\* JSON.parse(text): the value read, or a SyntaxError thrown
parse(text) ==
    LET final == parseTokens(parseStart, text, 1, Len(text))
    IN  IF final.ok /\ Len(final.stack) = 1 /\ final.stack[1].expect = "end"
        THEN Returned(final.stack[1].items[1])
        ELSE Threw("SyntaxError")

-----------------------------------------------------------------------------
(* localStorage.  Every call on it throws while it is disabled, and        *)
(* setItem throws when the texts stored would exceed the quota; a call     *)
(* that throws changes nothing.                                            *)

EmptyStorage == [k \in {} |-> <<>>]

RECURSIVE sizeOfKeys(_, _)
sizeOfKeys(store, keys) ==
    IF keys = {} THEN 0
    ELSE LET k == CHOOSE x \in keys : TRUE
         IN  Len(store[k]) + sizeOfKeys(store, keys \ {k})

\* getItem: the text under key, null if the key is not present
getItem(store, key) == IF key \in DOMAIN store THEN Some(store[key]) ELSE Null

\* the storage after setItem(key, text)
withItem(store, key, text) ==
    [k \in DOMAIN store \cup {key} |-> IF k = key THEN text ELSE store[k]]

\* the storage after removeItem(key)
withoutItem(store, key) == [k \in DOMAIN store \ {key} |-> store[k]]

\* setItem(key, text) does not throw
accepts(store, key, text) ==
    /\ storageEnabled
    /\ sizeOfKeys(withItem(store, key, text),
                  DOMAIN withItem(store, key, text)) <= quota

-----------------------------------------------------------------------------
(* StorageManager (src/unnamed/part_004) *)

DefaultStorageKey == "taskManagerData"

\* checkStorageAvailability: setItem(testKey, 'test'), removeItem(testKey)
checkStorageAvailability ==
    LET TestKey == "__storage_test__"
    IN  accepts(localStorage, TestKey, <<Word("test")>>)

\* new StorageManager(storageKey): the fields of the object
newStorageManager(key) ==
    [storageKey |-> key, isAvailable |-> checkStorageAvailability]

\* the fields of the StorageManager in use
isAvailable == storageManager[1].isAvailable

storageKey == storageManager[1].storageKey

\* mutant of saveOutcome: the stored text is removed when the write is
\* rejected
saveOutcomeRemoving(sm, data) ==
    IF ~sm.isAvailable THEN [ok |-> FALSE, store |-> localStorage]
    ELSE IF accepts(localStorage, sm.storageKey, serialized(data))
    THEN [ok |-> TRUE,
          store |-> withItem(localStorage, sm.storageKey, serialized(data))]
    ELSE [ok |-> FALSE, store |-> withoutItem(localStorage, sm.storageKey)]

\* mutant of saveOutcome: the substrate is probed again, this.isAvailable
\* is not read
saveOutcomeReprobing(sm, data) ==
    IF checkStorageAvailability
       /\ accepts(localStorage, sm.storageKey, serialized(data))
    THEN [ok |-> TRUE,
          store |-> withItem(localStorage, sm.storageKey, serialized(data))]
    ELSE [ok |-> FALSE, store |-> localStorage]

\* sm.save(data): what it returns and the storage it leaves
saveOutcome(sm, data) ==
    IF ~sm.isAvailable THEN [ok |-> FALSE, store |-> localStorage]
    ELSE IF accepts(localStorage, sm.storageKey, serialized(data))
    THEN [ok |-> TRUE,
          store |-> withItem(localStorage, sm.storageKey, serialized(data))]
    ELSE [ok |-> FALSE, store |-> localStorage]

\* sm.load(): what it returns
loadOutcome(sm) ==
    IF ~sm.isAvailable THEN JNull
    ELSE IF ~storageEnabled THEN JNull
    ELSE IF getItem(localStorage, sm.storageKey) = Null THEN JNull
    ELSE LET data == parse(localStorage[sm.storageKey])
         IN  IF data.threw THEN JNull ELSE data.val

\* mutant of clearOutcome: success is reported and nothing is removed
clearOutcomeKeeping(sm) ==
    IF ~sm.isAvailable \/ ~storageEnabled
    THEN [ok |-> FALSE, store |-> localStorage]
    ELSE [ok |-> TRUE, store |-> localStorage]

\* sm.clear(): what it returns and the storage it leaves
clearOutcome(sm) ==
    IF ~sm.isAvailable \/ ~storageEnabled
    THEN [ok |-> FALSE, store |-> localStorage]
    ELSE [ok |-> TRUE, store |-> withoutItem(localStorage, sm.storageKey)]

DigitChars == <<"0", "1", "2", "3", "4", "5", "6", "7", "8", "9">>

\* Date.prototype.toISOString of the instant t
toISOString(t) == <<"T", DigitChars[t + 1]>>

\* the backup object literal of createBackup
newBackup(t, data) ==
    JObj(<< <<"timestamp", JStr(toISOString(t))>>,
            <<"version", JStr(<<"1", ".", "0", ".", "0">>)>>,
            <<"data", data>> >>)

\* sm.restoreFromBackup(backup): what it returns and the storage it leaves
restoreOutcome(sm, backup) ==
    IF falsy(backup) \/ falsy(get(backup, "data"))
    THEN [ok |-> FALSE, store |-> localStorage]
    ELSE saveOutcome(sm, get(backup, "data"))

CapacityKey == "__capacity_test__"

\* testData after k rounds of the probing loop
probeText(k) == [i \in 1..(k * ProbeChunk) |-> Word("x")]

\* the probing loop of getStorageInfo from round k on: setItem of a text one
\* chunk longer each round, until setItem throws; what it leaves stored
RECURSIVE probing(_, _)
probing(store, k) ==
    IF accepts(store, CapacityKey, probeText(k))
    THEN probing(withItem(store, CapacityKey, probeText(k)), k + 1)
    ELSE store

\* sm.getStorageInfo(): what it returns and the storage it leaves.  The
\* probing loop is left only by the exception of setItem; the handler of
\* that exception reads testData, which is declared by let inside the try
\* block and so is not in scope: a ReferenceError is thrown before
\* removeItem is reached, the outer handler catches it and the return
\* statement after the inner try is never reached.
storageInfoOutcome(sm) ==
    IF ~sm.isAvailable
    THEN [info  |-> [available |-> FALSE, error |-> "localStorage not available"],
          store |-> localStorage]
    ELSE IF ~storageEnabled
    THEN [info  |-> [available |-> FALSE, error |-> "localStorage is disabled"],
          store |-> localStorage]
    ELSE [info  |-> [available |-> FALSE, error |-> "testData is not defined"],
          store |-> probing(localStorage, 1)]

\* a call on the StorageManager alone leaves the task store, the substrate's
\* state other than the texts stored and the manager itself as they are
storageCall(name, a, v, store) ==
    /\ op' = name
    /\ args' = a
    /\ ret' = Returned(v)
    /\ localStorage' = store
    /\ UNCHANGED <<tasks, nextId, issued>>
    /\ UNCHANGED <<storageEnabled, quota, storageManager, autoSave, unsaved>>
    /\ UNCHANGED <<sharedVars, fileVars>>

save(data) ==
    /\ storageCall("save", [data |-> data],
                   saveOutcome(storageManager[1], data).ok,
                   saveOutcome(storageManager[1], data).store)
    /\ UNCHANGED now

load ==
    /\ storageCall("load", NoArgs, loadOutcome(storageManager[1]), localStorage)
    /\ UNCHANGED now

clear ==
    /\ storageCall("clear", NoArgs, clearOutcome(storageManager[1]).ok,
                   clearOutcome(storageManager[1]).store)
    /\ UNCHANGED now

createBackup(t) ==
    IF falsy(loadOutcome(storageManager[1]))
    THEN /\ t = now
         /\ storageCall("createBackup", NoArgs, JNull, localStorage)
         /\ UNCHANGED now
    ELSE /\ t >= now
         /\ now' = t
         /\ storageCall("createBackup", NoArgs,
                        newBackup(t, loadOutcome(storageManager[1])),
                        localStorage)

restoreFromBackup(backup) ==
    /\ storageCall("restoreFromBackup", [backup |-> backup],
                   restoreOutcome(storageManager[1], backup).ok,
                   restoreOutcome(storageManager[1], backup).store)
    /\ UNCHANGED now

getStorageInfo ==
    /\ storageCall("getStorageInfo", NoArgs,
                   storageInfoOutcome(storageManager[1]).info,
                   storageInfoOutcome(storageManager[1]).store)
    /\ UNCHANGED now

\* A file is Null, or Some of whether it can be read and of its text (a
\* File or Blob, as every caller passes).  A promise is pending or fulfilled
\* with a value; importData has no reject function, and its executor does
\* not throw for a Blob.
File(readable, text) == Some([readable |-> readable, text |-> text])

Fulfilled(v) == <<"fulfilled", v>>

\* a step of importData or of one of its event handlers: only the readers
\* change
importStep(name, a, v) ==
    /\ op' = name
    /\ args' = a
    /\ ret' = Returned(v)
    /\ UNCHANGED <<tasks, nextId, now, issued>>
    /\ UNCHANGED persistVars
    /\ UNCHANGED <<sharedVars, download>>

\* importData(file): the promise is returned, fulfilled with null for an
\* absent file, pending while the FileReader started on the file reads it.
\* The promise is known by the place of its reader among the readers.
importData(file) ==
    /\ Len(readers) < MaxImports
    /\ importStep("importData", [file |-> file], Some(Len(readers) + 1))
    /\ readers' = Append(readers,
                     IF file = Null
                     THEN [file |-> file, promise |-> Fulfilled(JNull)]
                     ELSE [file |-> file, promise |-> <<"pending">>])

\* mutant of onload: JSON.parse outside the try block, so that a text that
\* is not JSON ends the handler before resolve is called
onloadUncaught(i) ==
    /\ i \in 1..Len(readers)
    /\ readers[i].promise[1] = "pending"
    /\ readers[i].file[1].readable
    /\ importStep("onload", [reader |-> i], Null)
    /\ readers' = IF parse(readers[i].file[1].text).threw THEN readers
                  ELSE [readers EXCEPT ![i].promise =
                          Fulfilled(parse(readers[i].file[1].text).val)]

\* reader.onload of the i-th reader: the file was read
onload(i) ==
    /\ i \in 1..Len(readers)
    /\ readers[i].promise[1] = "pending"
    /\ readers[i].file[1].readable
    /\ importStep("onload", [reader |-> i], Null)
    /\ readers' = [readers EXCEPT ![i].promise =
                     IF parse(readers[i].file[1].text).threw
                     THEN Fulfilled(JNull)
                     ELSE Fulfilled(parse(readers[i].file[1].text).val)]

\* reader.onerror of the i-th reader: the file could not be read
onerror(i) ==
    /\ i \in 1..Len(readers)
    /\ readers[i].promise[1] = "pending"
    /\ ~readers[i].file[1].readable
    /\ importStep("onerror", [reader |-> i], Null)
    /\ readers' = [readers EXCEPT ![i].promise = Fulfilled(JNull)]

\* the browser's storage becomes unusable, or usable again
storageSwitched ==
    /\ storageEnabled' = ~storageEnabled
    /\ op' = "storageSwitched"
    /\ args' = NoArgs
    /\ ret' = Returned(Null)
    /\ UNCHANGED <<tasks, nextId, now, issued>>
    /\ UNCHANGED <<localStorage, quota, storageManager, autoSave, unsaved>>
    /\ UNCHANGED <<sharedVars, fileVars>>

-----------------------------------------------------------------------------
(* PersistentTaskManager (src/unnamed/part_000).  In a stored snapshot the *)
(* status and the two instants of a task are strings: the characters of    *)
(* the status and the ISO texts of the instants.                           *)

StatusChars ==
    [ pending   |-> <<"p","e","n","d","i","n","g">>,
      completed |-> <<"c","o","m","p","l","e","t","e","d">> ]

\* the instant whose ISO text is chars
instantOf(chars) == CHOOSE t \in 0..(Len(DigitChars) - 1) : toISOString(t) = chars

\* a task object as a value, its members in the order of the literal of
\* addTask
taskValue(task) ==
    JObj(<< <<"id", JNum(task.id)>>,
            <<"title", JStr(task.title)>>,
            <<"description", JStr(task.description)>>,
            <<"priority", JStr(task.priority)>>,
            <<"status", JStr(StatusChars[task.status])>>,
            <<"createdAt", JStr(toISOString(task.createdAt))>>,
            <<"completedAt", IF task.completedAt = Null THEN JNull
                             ELSE JStr(toISOString(task.completedAt[1]))>> >>)

tasksValue(ts) == JArr([i \in 1..Len(ts) |-> taskValue(ts[i])])

\* the task objects an array of task values is
tasksOf(v) ==
    LET statusOf(chars) ==
            CHOOSE status \in DOMAIN StatusChars : StatusChars[status] = chars
        taskOf(m) ==
            [ id          |-> content(get(m, "id")),
              title       |-> content(get(m, "title")),
              description |-> content(get(m, "description")),
              priority    |-> content(get(m, "priority")),
              status      |-> statusOf(content(get(m, "status"))),
              createdAt   |-> instantOf(content(get(m, "createdAt"))),
              completedAt |-> IF get(m, "completedAt") = JNull THEN Null
                              ELSE Some(instantOf(content(get(m, "completedAt")))) ]
    IN  [i \in 1..Len(content(v)) |-> taskOf(content(v)[i])]

\* the object literal of saveData
snapshot(ts, id, t) ==
    JObj(<< <<"tasks", tasksValue(ts)>>,
            <<"nextId", JNum(id)>>,
            <<"lastSaved", JStr(toISOString(t))>> >>)

\* mutant of loaded: nextId is counted from the tasks, the saved nextId is
\* not read
loadedCounting(sm, ts, id) ==
    LET savedData == loadOutcome(sm) IN
    IF falsy(savedData) THEN [tasks |-> ts, nextId |-> id]
    ELSE [tasks  |-> tasksOf(orElse(get(savedData, "tasks"), JArr(<<>>))),
          nextId |-> Len(content(orElse(get(savedData, "tasks"), JArr(<<>>)))) + 1]

\* loadData() on a manager holding ts and id: the tasks and nextId it leaves
loaded(sm, ts, id) ==
    LET savedData == loadOutcome(sm) IN
    IF falsy(savedData) THEN [tasks |-> ts, nextId |-> id]
    ELSE [tasks  |-> tasksOf(orElse(get(savedData, "tasks"), JArr(<<>>))),
          nextId |-> content(orElse(get(savedData, "nextId"), JNum(1)))]

\* mutant of written: the tasks stored that data does not hold are written
\* back with it
writtenMerging(data) ==
    LET stored == loadOutcome(storageManager[1])
        mine   == content(get(data, "tasks"))
        theirs == IF falsy(stored) THEN <<>>
                  ELSE SelectSeq(content(get(stored, "tasks")),
                         LAMBDA v : \A i \in 1..Len(mine) :
                                       get(mine[i], "id") # get(v, "id"))
        merged == JObj(<< <<"tasks", JArr(theirs \o mine)>>,
                          <<"nextId", get(data, "nextId")>>,
                          <<"lastSaved", get(data, "lastSaved")>> >>)
        saving == saveOutcome(storageManager[1], merged)
    IN  /\ localStorage' = saving.store
        /\ unsaved' = [unsaved EXCEPT !.failed = @ \/ ~saving.ok]

\* storageManager.save(data) by the PersistentTaskManager; a save that
\* fails is remembered
written(data) ==
    LET saving == saveOutcome(storageManager[1], data) IN
    /\ localStorage' = saving.store
    /\ unsaved' = [unsaved EXCEPT !.failed = @ \/ ~saving.ok]

\* saveData() once the store has changed; a change that is not saved,
\* because auto-save is off, is remembered
saveData ==
    /\ IF autoSave = Some(TRUE)
       THEN written(snapshot(tasks', nextId', now'))
       ELSE /\ localStorage' = localStorage
            /\ unsaved' = [unsaved EXCEPT !.skipped = TRUE]
    /\ UNCHANGED <<storageEnabled, quota, storageManager, autoSave>>

\* new PersistentTaskManager(): super(), a new StorageManager, autoSave on,
\* loadData()
newPersistentTaskManager ==
    LET sm == newStorageManager(DefaultStorageKey) IN
    /\ op' = "newPersistentTaskManager"
    /\ args' = NoArgs
    /\ ret' = Returned(Null)
    /\ storageManager' = Some(sm)
    /\ autoSave' = Some(TRUE)
    /\ tasks' = loaded(sm, <<>>, 1).tasks
    /\ nextId' = loaded(sm, <<>>, 1).nextId
    /\ unsaved' = [skipped |-> FALSE, failed |-> FALSE]
    /\ UNCHANGED <<now, issued, localStorage, storageEnabled, quota>>

persistentAddTask(a, t) ==
    /\ titleMissing(a) \/ Len(issued) < MaxPersisted
    /\ addTask(a, t)
    /\ IF ret'.threw THEN UNCHANGED persistVars ELSE saveData

\* mutant of persistentCompleteTask: a completion that cannot be saved is
\* not made, and false is returned
persistentCompleteTaskUndone(id, t) ==
    LET i == findIndex(tasks, id) IN
    IF /\ i # 0
       /\ autoSave = Some(TRUE)
       /\ ~saveOutcome(storageManager[1],
                       snapshot([tasks EXCEPT ![i].status = "completed",
                                              ![i].completedAt = Some(t)],
                                nextId, t)).ok
    THEN /\ t = now
         /\ op' = "completeTask"
         /\ args' = [id |-> id]
         /\ ret' = Returned(FALSE)
         /\ UNCHANGED <<tasks, nextId, now, issued>>
         /\ UNCHANGED persistVars
    ELSE /\ completeTask(id, t)
         /\ IF ret'.val THEN saveData ELSE UNCHANGED persistVars

persistentCompleteTask(id, t) ==
    /\ completeTask(id, t)
    /\ IF ret'.val THEN saveData ELSE UNCHANGED persistVars

\* mutant of persistentDeleteTask: saveData is not called
persistentDeleteTaskUnsaved(id) ==
    /\ deleteTask(id)
    /\ UNCHANGED persistVars

persistentDeleteTask(id) ==
    /\ deleteTask(id)
    /\ IF ret'.val THEN saveData ELSE UNCHANGED persistVars

persistentClearAllTasks ==
    /\ clearAllTasks
    /\ saveData

\* setAutoSave(enabled): saveData() at once when enabled
setAutoSave(enabled) ==
    /\ op' = "setAutoSave"
    /\ args' = [enabled |-> enabled]
    /\ ret' = Returned(Null)
    /\ autoSave' = Some(enabled)
    /\ IF enabled THEN written(snapshot(tasks, nextId, now))
       ELSE UNCHANGED <<localStorage, unsaved>>
    /\ UNCHANGED <<tasks, nextId, now, issued>>
    /\ UNCHANGED <<storageEnabled, quota, storageManager>>

\* forceSave(): return this.saveData(), which returns nothing and writes
\* nothing while autoSave is off
forceSave ==
    /\ op' = "forceSave"
    /\ args' = NoArgs
    /\ IF autoSave = Some(TRUE)
       THEN /\ written(snapshot(tasks, nextId, now))
            /\ ret' = Returned(JBool(saveOutcome(storageManager[1],
                                                 snapshot(tasks, nextId, now)).ok))
       ELSE /\ ret' = Returned(Undefined)
            /\ UNCHANGED <<localStorage, unsaved>>
    /\ UNCHANGED <<tasks, nextId, now, issued>>
    /\ UNCHANGED <<storageEnabled, quota, storageManager, autoSave>>

\* clearStorage(): the store is emptied if the key could be removed
clearStorage ==
    LET clearing == clearOutcome(storageManager[1]) IN
    /\ op' = "clearStorage"
    /\ args' = NoArgs
    /\ ret' = Returned(clearing.ok)
    /\ localStorage' = clearing.store
    /\ tasks' = IF clearing.ok THEN <<>> ELSE tasks
    /\ nextId' = IF clearing.ok THEN 1 ELSE nextId
    /\ UNCHANGED <<now, issued>>
    /\ UNCHANGED <<storageEnabled, quota, storageManager, autoSave, unsaved>>

\* importFromFile(file), from the call to the resolution of its promise
importFromFile(file) ==
    LET importedData == IF file = Null THEN JNull
                        ELSE IF ~file[1].readable THEN JNull
                        ELSE IF parse(file[1].text).threw THEN JNull
                        ELSE parse(file[1].text).val
        imported     == get(importedData, "tasks")
    IN  /\ op' = "importFromFile"
        /\ args' = [file |-> file]
        /\ IF ~falsy(importedData) /\ typeOf(imported) = "array"
           THEN /\ tasks' = tasksOf(imported)
                /\ nextId' = content(orElse(get(importedData, "nextId"),
                                            JNum(Len(content(imported)) + 1)))
                /\ ret' = Returned(TRUE)
                /\ UNCHANGED <<now, issued>>
                /\ saveData
           ELSE /\ ret' = Returned(FALSE)
                /\ UNCHANGED <<tasks, nextId, now, issued>>
                /\ UNCHANGED persistVars

\* Array.prototype.includes
includes(list, v) == \E i \in 1..Len(list) : list[i] = v

\* the issues array of one task: the four tests of getDataIntegrityReport
\* on a member of this.tasks that is neither null nor undefined; a property
\* of a number, a string, a boolean or an array that is not there is
\* undefined
issuesOf(task) ==
    LET Priorities ==
            << JStr(<<"l","o","w">>), JStr(<<"m","e","d","i","u","m">>),
               JStr(<<"h","i","g","h">>) >>
        Statuses == << JStr(StatusChars.pending), JStr(StatusChars.completed) >>
        issueTests ==
            << [ issue  |-> "Invalid or missing ID",
                 found  |-> \/ falsy(get(task, "id"))
                            \/ typeOf(get(task, "id")) # "number" ],
               [ issue  |-> "Invalid or missing title",
                 found  |-> \/ falsy(get(task, "title"))
                            \/ typeOf(get(task, "title")) # "string" ],
               [ issue  |-> "Invalid priority",
                 found  |-> \/ falsy(get(task, "priority"))
                            \/ ~includes(Priorities, get(task, "priority")) ],
               [ issue  |-> "Invalid status",
                 found  |-> \/ falsy(get(task, "status"))
                            \/ ~includes(Statuses, get(task, "status")) ] >>
        found == SelectSeq(issueTests, LAMBDA test : test.found)
    IN  [i \in 1..Len(found) |-> found[i].issue]

\* the places among the first n of ts of the tasks with issues, in order
RECURSIVE invalidPlaces(_, _)
invalidPlaces(ts, n) ==
    IF n = 0 THEN <<>>
    ELSE IF issuesOf(ts[n]) # <<>> THEN Append(invalidPlaces(ts, n - 1), n)
    ELSE invalidPlaces(ts, n - 1)

\* getDataIntegrityReport() on the task list ts, its members being
\* JavaScript values: task.id of a member that is null throws a TypeError,
\* which forEach lets through
integrityReport(ts) ==
    IF \E i \in 1..Len(ts) : typeOf(ts[i]) \in {"null", "undefined"}
    THEN Threw("TypeError")
    ELSE LET invalid == invalidPlaces(ts, Len(ts))
         IN  Returned(
               [ totalTasks   |-> Len(ts),
                 validTasks   |-> Len(ts) - Len(invalid),
                 invalidTasks |-> Len(invalid),
                 issues       |-> [k \in 1..Len(invalid) |->
                                    [ taskIndex |-> invalid[k] - 1,
                                      taskId    |-> get(ts[invalid[k]], "id"),
                                      issues    |-> issuesOf(ts[invalid[k]]) ]] ])

\* getDataIntegrityReport(), ts being this.tasks as JavaScript values
getDataIntegrityReport(ts) ==
    /\ op' = "getDataIntegrityReport"
    /\ args' = NoArgs
    /\ ret' = integrityReport(ts)
    /\ UNCHANGED <<tasks, nextId, now, issued>>
    /\ UNCHANGED persistVars

-----------------------------------------------------------------------------
(* TaskManagerApp (src/unnamed/part_002): the page around a TaskManager.   *)
(* JSON.stringify(tasks, null, 2) differs from JSON.stringify(tasks) in    *)
(* white space only, which is no token of the text.                        *)

\* exportTasks(): the task list is offered for download as tasks.json
exportTasks ==
    /\ op' = "exportTasks"
    /\ args' = NoArgs
    /\ ret' = Returned(Null)
    /\ download' = File(TRUE, stringify(tasksValue(getTasksOf(tasks, "all"))))
    /\ UNCHANGED <<tasks, nextId, now, issued>>
    /\ UNCHANGED persistVars
    /\ UNCHANGED <<sharedVars, readers>>

\* addTask(task.title, task.description, task.priority) returns: title,
\* description and priority are strings, or the last two are left out
addable(v) ==
    /\ typeOf(v) \notin {"null", "undefined"}
    /\ typeOf(get(v, "title")) = "string"
    /\ ~titleMissing([title |-> content(get(v, "title"))])
    /\ typeOf(get(v, "description")) \in {"string", "undefined"}
    /\ typeOf(get(v, "priority")) \in {"string", "undefined"}

\* the arguments importTasks gives addTask for the task v
addArgs(v) ==
    [ title       |-> content(get(v, "title")),
      description |-> IF typeOf(get(v, "description")) = "undefined"
                      THEN DefaultDescription
                      ELSE content(get(v, "description")),
      priority    |-> IF typeOf(get(v, "priority")) = "undefined"
                      THEN DefaultPriority
                      ELSE content(get(v, "priority")) ]

\* this.taskManager.completeTask(id) on the list ts, id being any value:
\* find(t => t.id === id)
completedIn(ts, id, t) ==
    IF typeOf(id) = "number" /\ findIndex(ts, content(id)) # 0
    THEN [ts EXCEPT ![findIndex(ts, content(id))].status = "completed",
                    ![findIndex(ts, content(id))].completedAt = Some(t)]
    ELSE ts

\* the forEach of importTasks from the k-th member of vs on, the store
\* holding ts and id: the store it leaves, and whether it threw
RECURSIVE importEach(_, _, _, _, _)
importEach(ts, id, vs, k, t) ==
    IF k > Len(vs) THEN [threw |-> FALSE, tasks |-> ts, nextId |-> id]
    ELSE IF ~addable(vs[k]) THEN [threw |-> TRUE, tasks |-> ts, nextId |-> id]
    ELSE LET added == Append(ts, newTask(id, addArgs(vs[k]), t))
         IN  importEach(
               IF get(vs[k], "status") = JStr(StatusChars.completed)
               THEN completedIn(added, get(vs[k], "id"), t)
               ELSE added,
               id + 1, vs, k + 1, t)

\* importTasks(file) for a file that can be read, from the call to the end
\* of the onload handler of its FileReader; the clock is read at t.  What
\* is thrown in the handler is caught there.
importTasks(file, t) ==
    LET parsed   == parse(file[1].text)
        items    == IF typeOf(parsed.val) = "array" THEN content(parsed.val)
                    ELSE <<>>
        imported == importEach(<<>>, 1, items, 1, t)
    IN  /\ file # Null
        /\ file[1].readable
        /\ Len(issued) <= MaxAdds
        /\ t >= now
        /\ op' = "importTasks"
        /\ args' = [file |-> file]
        /\ ret' = Returned(Null)
        /\ IF parsed.threw
           THEN UNCHANGED <<tasks, nextId, now, issued>>
           ELSE /\ tasks' = imported.tasks
                /\ nextId' = imported.nextId
                /\ issued' = issued \o [i \in 1..(imported.nextId - 1) |-> i]
                /\ now' = IF items = <<>> THEN now ELSE t
        /\ UNCHANGED persistVars
        /\ UNCHANGED <<sharedVars, fileVars>>

-----------------------------------------------------------------------------
(* Two PersistentTaskManagers on one storage key (two pages of one origin, *)
(* or two objects in one page).  Scripts run one at a time: the fields in  *)
(* tasks, nextId, storageManager and autoSave are those of the instance    *)
(* whose method runs, and the other instance's fields are in standby.      *)

\* the fields of the instance whose methods run
fields ==
    [ tasks          |-> tasks,
      nextId         |-> nextId,
      storageManager |-> storageManager,
      autoSave       |-> autoSave,
      unsaved        |-> unsaved ]

\* a second PersistentTaskManager is constructed on the default key; its
\* methods run next
newSecondManager ==
    /\ standby = Null
    /\ newPersistentTaskManager
    /\ instance' = 2
    /\ standby' = Some(fields)
    /\ UNCHANGED savedBy

\* the methods of the other instance run next
handOver ==
    /\ standby # Null
    /\ op' = "handOver"
    /\ args' = NoArgs
    /\ ret' = Returned(Null)
    /\ instance' = 3 - instance
    /\ standby' = Some(fields)
    /\ tasks' = standby[1].tasks
    /\ nextId' = standby[1].nextId
    /\ storageManager' = standby[1].storageManager
    /\ autoSave' = standby[1].autoSave
    /\ unsaved' = standby[1].unsaved
    /\ UNCHANGED <<now, issued, localStorage, storageEnabled, quota, savedBy>>

\* the step of the instance in turn ended in a storageManager.save that
\* returned true, if it called saveData at all
saves(called) ==
    /\ called
    /\ autoSave = Some(TRUE)
    /\ saveOutcome(storageManager[1], snapshot(tasks', nextId', now')).ok

\* the instance in turn is the one that saved last if its step saved
savedInTurn(called) ==
    /\ savedBy' = IF saves(called) THEN Some(instance) ELSE savedBy
    /\ UNCHANGED <<instance, standby>>

-----------------------------------------------------------------------------
(* The inputs *)

Times == 0..MaxTime

Ids == 1..(MaxAdds + 1)

StatusInputs ==
    { NoArgs, [status |-> "pending"], [status |-> "completed"],
      [status |-> "done"] }

OrderInputs == { NoArgs, [order |-> "desc"], [order |-> "asc"] }

AddInputs ==
    { [title |-> <<>>],
      [title |-> <<" ", "\t">>],
      [title |-> <<" ", "a", " ">>],
      [title |-> <<"b">>, description |-> <<" ", "d">>,
       priority |-> <<"H","I","G","H">>] }

-----------------------------------------------------------------------------
(* The specification *)

\* one manager at most
noSharing ==
    /\ instance = 1
    /\ standby = Null
    /\ savedBy = Null

\* no file was read or written
noFiles ==
    /\ readers = <<>>
    /\ download = Null

\* a TaskManager on its own: nothing is stored and nothing persists it
noPersistence ==
    /\ localStorage = EmptyStorage
    /\ storageEnabled = TRUE
    /\ quota = QuotaLarge
    /\ storageManager = Null
    /\ autoSave = Null
    /\ unsaved = Null
    /\ noSharing
    /\ noFiles

Init ==
    /\ constructor
    /\ now = 0
    /\ issued = <<>>
    /\ op = "constructor"
    /\ args = NoArgs
    /\ ret = Returned(Null)
    /\ noPersistence

Next ==
    \/ \E a \in AddInputs, t \in Times :
          addTask(a, t) /\ UNCHANGED aloneVars
    \/ \E id \in Ids, t \in Times :
          completeTask(id, t) /\ UNCHANGED aloneVars
    \/ \E id \in Ids : deleteTask(id) /\ UNCHANGED aloneVars
    \/ clearAllTasks /\ UNCHANGED aloneVars
    \/ \E a \in StatusInputs : getTasks(a) /\ UNCHANGED aloneVars
    \/ \E id \in Ids : getTaskById(id) /\ UNCHANGED aloneVars
    \/ getStats /\ UNCHANGED aloneVars
    \/ \E a \in OrderInputs : getTasksByPriority(a) /\ UNCHANGED aloneVars

Spec == Init /\ [][Next]_vars

\* addTask, completeTask and deleteTask only
NextCore ==
    \/ \E a \in AddInputs, t \in Times :
          addTask(a, t) /\ UNCHANGED aloneVars
    \/ \E id \in Ids, t \in Times :
          completeTask(id, t) /\ UNCHANGED aloneVars
    \/ \E id \in Ids : deleteTask(id) /\ UNCHANGED aloneVars

SpecCore == Init /\ [][NextCore]_vars

\* addTask, completeTask, deleteTask and getTasks with every kind of filter
NextFilter ==
    \/ NextCore
    \/ \E a \in StatusInputs \cup { [status |-> "all"] } : getTasks(a) /\ UNCHANGED aloneVars

SpecFilter == Init /\ [][NextFilter]_vars

\* getStats on a store of n tasks, ids 1..n, the first c of them completed:
\* the store after n addTask calls and completeTask(1), ..., completeTask(c)
InitStats ==
    \E n \in 0..MaxTotal, c \in 0..MaxTotal :
        /\ c <= n
        /\ tasks =
             [ i \in 1..n |->
                 [ newTask(i, [title |-> <<"a">>], 0)
                     EXCEPT !.status = IF i <= c THEN "completed" ELSE "pending",
                            !.completedAt = IF i <= c THEN Some(0) ELSE Null ] ]
        /\ nextId = n + 1
        /\ now = 0
        /\ issued = [i \in 1..n |-> i]
        /\ op = IF c > 0 THEN "completeTask" ELSE "constructor"
        /\ args = IF c > 0 THEN [id |-> c] ELSE NoArgs
        /\ ret = IF c > 0 THEN Returned(TRUE) ELSE Returned(Null)
        /\ noPersistence

NextStats == getStats /\ UNCHANGED aloneVars

SpecStats == InitStats /\ [][NextStats]_vars

\* getTasksByPriority on a store of n tasks, ids 1..n, of every mix of
\* priorities: the store after n addTask calls
InitPriority ==
    \E n \in 0..MaxSorted :
        \E ps \in [1..n -> { <<"l","o","w">>, <<"m","e","d","i","u","m">>,
                              <<"h","i","g","h">>,
                              <<"i","n","v","a","l","i","d">> }] :
            /\ tasks = [ i \in 1..n |->
                           newTask(i, [title |-> <<"a">>, priority |-> ps[i]], 0) ]
            /\ nextId = n + 1
            /\ now = 0
            /\ issued = [i \in 1..n |-> i]
            /\ op = "constructor"
            /\ args = NoArgs
            /\ ret = Returned(Null)
            /\ noPersistence

NextPriority ==
    \E a \in OrderInputs : getTasksByPriority(a) /\ UNCHANGED aloneVars

SpecPriority == InitPriority /\ [][NextPriority]_vars

\* A TaskManagerApp: tasks are added, completed and deleted, the list is
\* exported and the file exported last is imported.  The clock stands at
\* one reading.
InitApp ==
    /\ constructor
    /\ now \in Times
    /\ issued = <<>>
    /\ op = "constructor"
    /\ args = NoArgs
    /\ ret = Returned(Null)
    /\ noPersistence

NextApp ==
    \/ \E a \in { [title |-> <<" ", "a", " ">>],
                  [title |-> <<"b">>, description |-> <<" ", "d">>,
                   priority |-> <<"H","I","G","H">>] } :
          addTask(a, now) /\ UNCHANGED aloneVars
    \/ \E id \in Ids : completeTask(id, now) /\ UNCHANGED aloneVars
    \/ \E id \in Ids : deleteTask(id) /\ UNCHANGED aloneVars
    \/ exportTasks
    \/ download # Null /\ importTasks(download, now)

SpecApp == InitApp /\ [][NextApp]_vars

\* A StorageManager on its own, constructed on an empty localStorage that is
\* enabled or not, small or large
SaveInputs ==
    { Undefined,
      JNum(0),
      JObj(<< <<"invalid", JStr(<<"d">>)>> >>),
      JObj(<< <<"tasks", JArr(<< JObj(<< <<"id", JNum(1)>> >>) >>)>>,
              <<"nextId", JNum(2)>> >>) }

InitStorage ==
    /\ tasks = <<>>
    /\ nextId = 1
    /\ now = 0
    /\ issued = <<>>
    /\ op = "constructor"
    /\ args = NoArgs
    /\ ret = Returned(Null)
    /\ localStorage = EmptyStorage
    /\ storageEnabled \in BOOLEAN
    /\ quota \in {QuotaSmall, QuotaLarge}
    /\ storageManager = Some(newStorageManager(DefaultStorageKey))
    /\ autoSave = Null
    /\ unsaved = Null
    /\ noSharing
    /\ noFiles

NextStorage ==
    \/ \E data \in SaveInputs : save(data)
    \/ load
    \/ clear
    \/ \E t \in Times : createBackup(t)
    \/ \E backup \in
            { JNull, JObj(<< <<"invalid", JStr(<<"b">>)>> >>) }
              \cup { newBackup(t, data) :
                       t \in Times, data \in SaveInputs \ {Undefined} } :
          restoreFromBackup(backup)
    \/ getStorageInfo
    \/ storageSwitched

SpecStorage == InitStorage /\ [][NextStorage]_vars

\* importData on a StorageManager constructed on a localStorage that holds
\* nothing or a text stored earlier, and is enabled or not from time to
\* time.  A FileReader that was started fires load or error in the end.
InitImport ==
    /\ tasks = <<>>
    /\ nextId = 1
    /\ now = 0
    /\ issued = <<>>
    /\ op = "constructor"
    /\ args = NoArgs
    /\ ret = Returned(Null)
    /\ localStorage \in
          { EmptyStorage }
            \cup { withItem(EmptyStorage, DefaultStorageKey, serialized(data)) :
                     data \in SaveInputs }
    /\ storageEnabled \in BOOLEAN
    /\ quota \in {QuotaSmall, QuotaLarge}
    /\ storageManager = Some(newStorageManager(DefaultStorageKey))
    /\ autoSave = Null
    /\ unsaved = Null
    /\ noSharing
    /\ noFiles

NextImport ==
    \/ \E file \in
            { Null,
              File(FALSE, <<>>),
              File(TRUE, <<Word("invalid"), Word("json")>>),
              File(TRUE, stringify(JObj(<<
                  <<"tasks", JArr(<< JObj(<< <<"id", JNum(1)>> >>) >>)>>,
                  <<"nextId", JNum(2)>> >>))) } :
          importData(file)
    \/ \E i \in 1..MaxImports : onload(i)
    \/ \E i \in 1..MaxImports : onerror(i)
    \/ storageSwitched

SpecImport ==
    /\ InitImport
    /\ [][NextImport]_vars
    /\ \A i \in 1..MaxImports : WF_readers(onload(i)) /\ WF_readers(onerror(i))

\* A PersistentTaskManager, constructed on an empty localStorage that is
\* enabled or not and has room for one task or for all
PersistInputs ==
    { [title |-> <<" ", "\t">>],
      [title |-> <<"b">>, description |-> <<" ", "d">>,
       priority |-> <<"H","I","G","H">>] }

PersistIds == 1..(MaxPersisted + 1)

InitPersistent ==
    /\ now \in Times
    /\ issued = <<>>
    /\ op = "newPersistentTaskManager"
    /\ args = NoArgs
    /\ ret = Returned(Null)
    /\ localStorage = EmptyStorage
    /\ storageEnabled \in BOOLEAN
    /\ quota \in {QuotaLarge, QuotaHuge}
    /\ storageManager = Some(newStorageManager(DefaultStorageKey))
    /\ autoSave = Some(TRUE)
    /\ unsaved = [skipped |-> FALSE, failed |-> FALSE]
    /\ tasks = loaded(storageManager[1], <<>>, 1).tasks
    /\ nextId = loaded(storageManager[1], <<>>, 1).nextId
    /\ noSharing
    /\ noFiles

\* the clock stands at one reading, whichever it is, all along
NextPersistent ==
    \/ newPersistentTaskManager /\ UNCHANGED <<sharedVars, fileVars>>
    \/ \E a \in PersistInputs :
          persistentAddTask(a, now) /\ UNCHANGED <<sharedVars, fileVars>>
    \/ \E id \in PersistIds :
          persistentCompleteTask(id, now) /\ UNCHANGED <<sharedVars, fileVars>>
    \/ \E id \in PersistIds :
          persistentDeleteTask(id) /\ UNCHANGED <<sharedVars, fileVars>>
    \/ persistentClearAllTasks /\ UNCHANGED <<sharedVars, fileVars>>
    \/ clearStorage /\ UNCHANGED <<sharedVars, fileVars>>
    \/ \E file \in
            { Null,
              File(FALSE, <<>>),
              File(TRUE, <<Word("invalid"), Word("json")>>),
              File(TRUE, stringify(JObj(<< <<"invalid", JStr(<<"d">>)>> >>))),
              File(TRUE, stringify(JObj(<< <<"tasks",
                  tasksValue(<<newTask(2, [title |-> <<"i">>], 0)>>)>> >>))) } :
          importFromFile(file) /\ UNCHANGED <<sharedVars, fileVars>>

SpecPersistent == InitPersistent /\ [][NextPersistent]_vars

\* getDataIntegrityReport on a PersistentTaskManager constructed on a
\* localStorage that holds a snapshot with any tasks array.  loadData assigns
\* the array as it was parsed: here tasks is the sequence of the values in
\* it, whatever they are.
InitIntegrity ==
    \E n \in 0..MaxChecked :
        \E ts \in [1..n ->
            { taskValue(newTask(1, [title |-> <<"a">>, priority |-> <<"h","i","g","h">>], 0)),
              JObj(<< <<"id", JNum(2)>>, <<"title", JStr(<<>>)>>,
                      <<"priority", JStr(<<"i","n","v","a","l","i","d">>)>>,
                      <<"status", JStr(<<"u","n","k","n","o","w","n">>)>> >>),
              JObj(<< <<"id", JNum(0)>>, <<"title", JStr(<<"a">>)>>,
                      <<"priority", JStr(<<"l","o","w">>)>>,
                      <<"status", JStr(StatusChars.completed)>> >>),
              JObj(<< <<"id", JStr(<<"3">>)>>, <<"title", JNum(3)>>,
                      <<"priority", JStr(<<"m","e","d","i","u","m">>)>>,
                      <<"status", JStr(StatusChars.pending)>> >>),
              JObj(<< <<"id", JNum(4)>>, <<"title", JStr(<<"b">>)>>,
                      <<"priority", JStr(<<"m","e","d","i","u","m">>)>>,
                      <<"status", JStr(StatusChars.completed)>> >>),
              JObj(<<>>),
              JNum(5),
              JNull }] :
            /\ now = 0
            /\ issued = <<>>
            /\ op = "newPersistentTaskManager"
            /\ args = NoArgs
            /\ ret = Returned(Null)
            /\ localStorage =
                  withItem(EmptyStorage, DefaultStorageKey,
                           stringify(JObj(<< <<"tasks", JArr(ts)>>,
                                             <<"nextId", JNum(n + 1)>> >>)))
            /\ storageEnabled = TRUE
            /\ quota = QuotaHuge
            /\ storageManager = Some(newStorageManager(DefaultStorageKey))
            /\ autoSave = Some(TRUE)
            /\ unsaved = [skipped |-> FALSE, failed |-> FALSE]
            /\ tasks = content(get(loadOutcome(storageManager[1]), "tasks"))
            /\ nextId = content(get(loadOutcome(storageManager[1]), "nextId"))
            /\ noSharing
            /\ noFiles

NextIntegrity ==
    getDataIntegrityReport(tasks) /\ UNCHANGED <<sharedVars, fileVars>>

SpecIntegrity == InitIntegrity /\ [][NextIntegrity]_vars

\* A PersistentTaskManager whose auto-save is switched off and on and whose
\* forceSave is called
NextForce ==
    \/ \E a \in PersistInputs :
          persistentAddTask(a, now) /\ UNCHANGED <<sharedVars, fileVars>>
    \/ \E id \in PersistIds :
          persistentCompleteTask(id, now) /\ UNCHANGED <<sharedVars, fileVars>>
    \/ \E id \in PersistIds :
          persistentDeleteTask(id) /\ UNCHANGED <<sharedVars, fileVars>>
    \/ \E enabled \in BOOLEAN :
          setAutoSave(enabled) /\ UNCHANGED <<sharedVars, fileVars>>
    \/ forceSave /\ UNCHANGED <<sharedVars, fileVars>>

SpecForce == InitPersistent /\ [][NextForce]_vars

\* Two PersistentTaskManagers on the default key of a localStorage that has
\* room for every snapshot; the second is constructed at any moment
InitShared ==
    /\ InitPersistent
    /\ storageEnabled
    /\ quota = QuotaHuge

NextShared ==
    \/ newSecondManager /\ UNCHANGED fileVars
    \/ handOver /\ UNCHANGED fileVars
    \/ \E a \in PersistInputs :
          /\ persistentAddTask(a, now)
          /\ savedInTurn(~ret'.threw)
          /\ UNCHANGED fileVars
    \/ \E id \in PersistIds :
          /\ persistentCompleteTask(id, now)
          /\ savedInTurn(ret'.val)
          /\ UNCHANGED fileVars
    \/ \E id \in PersistIds :
          /\ persistentDeleteTask(id)
          /\ savedInTurn(ret'.val)
          /\ UNCHANGED fileVars
    \/ persistentClearAllTasks /\ savedInTurn(TRUE) /\ UNCHANGED fileVars

SpecShared == InitShared /\ [][NextShared]_vars

-----------------------------------------------------------------------------
(* Properties *)

\* the indices of two states' tasks that carry the same id: the task stayed
SameTask(i, j) == tasks[i].id = tasks'[j].id

HasId(ts, id) == \E i \in 1..Len(ts) : ts[i].id = id

Completed(ts) == {i \in 1..Len(ts) : ts[i].status = "completed"}

\* floor(100 * c / n + 1/2): the percentage rounded to nearest, halves up
RoundedPercentage(c, n) == (200 * c + n) \div (2 * n)

\* C1: with addTask, completeTask and deleteTask only, every successful
\* addTask returns an id greater than every id handed out before it (so no
\* id of a deleted task comes back), with status 'pending' and completedAt
\* null.
AddTaskIdsStrictlyIncrease ==
    /\ \A i, j \in 1..Len(issued) : i < j => issued[i] < issued[j]
    /\ (op = "addTask" /\ ~ret.threw) =>
          /\ ret.val.id = issued[Len(issued)]
          /\ ret.val.status = "pending"
          /\ ret.val.completedAt = Null

\* C1 witness: a third addTask after the two earlier tasks were deleted
\* returns id 3.
AddAfterDeletes ==
    /\ op = "addTask" /\ ~ret.threw
    /\ ret.val.id = 3
    /\ Len(tasks) = 1

\* C2 as stated: no operation ever makes nextId smaller.
NextIdNeverDecreases == [][nextId' >= nextId]_vars

\* C2 amended: addTask, completeTask, deleteTask and the queries never make
\* nextId smaller (a successful addTask raises it by one, the others leave
\* it); clearAllTasks alone lowers it, to 1, and empties the store.
NextIdLoweredOnlyByClear ==
    [][ /\ (op' = "addTask" /\ ~ret'.threw) => nextId' = nextId + 1
        /\ (op' = "addTask" /\ ret'.threw) => nextId' = nextId
        /\ op' \notin {"addTask", "clearAllTasks"} => nextId' = nextId
        /\ op' = "clearAllTasks" => (nextId' = 1 /\ tasks' = <<>>) ]_vars

\* C2 witness: after add, add, clearAllTasks the next addTask hands out id 1
\* a second time.
IdReusedAfterClear ==
    /\ op = "addTask" /\ ~ret.threw
    /\ issued = <<1, 2, 1>>

\* C3: the ids in the store are pairwise distinct positive integers below
\* nextId, and the first id ever handed out is 1.
IdsDistinctPositiveBelowNextId ==
    /\ \A i \in 1..Len(tasks) : tasks[i].id > 0 /\ tasks[i].id < nextId
    /\ \A i, j \in 1..Len(tasks) : i # j => tasks[i].id # tasks[j].id
    /\ issued # <<>> => issued[1] = 1

\* C3 witness: add, clearAllTasks, add, add leaves two tasks with ids 1, 2.
TwoTasksAfterClear ==
    /\ op = "addTask" /\ ~ret.threw
    /\ issued = <<1, 1, 2>>
    /\ Len(tasks) = 2

\* C4: addTask with an empty or whitespace-only title fails with 'Task title
\* is required' and changes neither the task sequence nor nextId.
BlankTitleRejected ==
    [][ (op' = "addTask" /\ trim(args'.title) = <<>>) =>
            /\ ret' = Threw(TitleRequired)
            /\ tasks' = tasks
            /\ nextId' = nextId ]_vars

\* C4 witness: a whitespace-only title was rejected on a store with a task.
WhitespaceTitleRejected ==
    /\ op = "addTask" /\ ret.threw
    /\ args.title # <<>>
    /\ tasks # <<>>

\* C5: completeTask(id) returns true exactly when the store holds a task
\* with that id, and then getTaskById(id) shows status 'completed' with
\* completedAt set; otherwise it returns false and changes nothing.
CompleteTaskContract ==
    [][ op' = "completeTask" =>
          LET id == args'.id IN
          /\ ret' = Returned(HasId(tasks, id))
          /\ HasId(tasks, id) =>
                LET found == getTaskByIdOf(tasks', id) IN
                /\ found # Null
                /\ found[1].status = "completed"
                /\ found[1].completedAt # Null
          /\ ~HasId(tasks, id) => (tasks' = tasks /\ nextId' = nextId) ]_vars

\* C5 witness: completeTask(2) returned true on a store of several tasks.
SecondTaskCompleted ==
    /\ op = "completeTask" /\ ret.val = TRUE
    /\ args.id = 2
    /\ Len(tasks) >= 2

\* C6: every status is pending or completed, and a completed task that
\* stays in the store is completed after every step.
StatusOnlyPendingToCompleted ==
    [][ /\ \A j \in 1..Len(tasks') :
              tasks'[j].status \in {"pending", "completed"}
        /\ \A i \in 1..Len(tasks), j \in 1..Len(tasks') :
              (SameTask(i, j) /\ tasks[i].status = "completed")
                  => tasks'[j].status = "completed" ]_vars

\* C6 witness: a later operation acted on a store holding a completed task:
\* a deleteTask of another task, which the completed task survived.
CompletedTaskSurvivedDelete ==
    /\ op = "deleteTask" /\ ret.val = TRUE
    /\ Completed(tasks) # {}

\* C7 as stated: the completedAt of a completed task that stays in the store
\* is never changed afterwards.
CompletedAtSetOnce ==
    [][ \A i \in 1..Len(tasks), j \in 1..Len(tasks') :
          (SameTask(i, j) /\ tasks[i].completedAt # Null)
              => tasks'[j].completedAt = tasks[i].completedAt ]_vars

\* C8: deleteTask(id) with the id in the store returns true and removes that
\* one task (the length drops by one), keeping the others, their order and
\* nextId; with the id absent it returns false and changes nothing.
DeleteTaskContract ==
    [][ op' = "deleteTask" =>
          LET id == args'.id IN
          /\ ret' = Returned(HasId(tasks, id))
          /\ nextId' = nextId
          /\ HasId(tasks, id) =>
                /\ Len(getTasksOf(tasks', "all")) = Len(tasks) - 1
                /\ ~HasId(tasks', id)
                /\ \E k \in 1..Len(tasks) :
                      /\ tasks[k].id = id
                      /\ \A i \in 1..Len(tasks') :
                            tasks'[i] = IF i < k THEN tasks[i]
                                                 ELSE tasks[i + 1]
          /\ ~HasId(tasks, id) => tasks' = tasks ]_vars

\* C8 witness: the middle one of three tasks was deleted.
MiddleTaskDeleted ==
    /\ op = "deleteTask" /\ ret.val = TRUE
    /\ args.id = 2
    /\ Len(tasks) = 2
    /\ tasks[1].id = 1 /\ tasks[2].id = 3

\* C9: getStats() has total = completed + pending, total the number of tasks
\* in the store and completed the number of tasks with status 'completed'.
StatsTotalIsCompletedPlusPending ==
    LET stats == getStatsOf(tasks) IN
    /\ stats.total = stats.completed + stats.pending
    /\ stats.total = Len(tasks)
    /\ stats.completed = Cardinality(Completed(tasks))
    /\ op = "getStats" => ret = Returned(stats)

\* C9 witness: getStats on a store with completed and pending tasks.
StatsOfMixedStore ==
    /\ op = "getStats"
    /\ ret.val.completed >= 1
    /\ ret.val.pending >= 1

\* C10 as stated: completionRate is completed / total * 100 rounded to the
\* nearest integer, halves up; 0 for the empty store; within 0..100.
CompletionRateIsRoundedPercentage ==
    op = "getStats" =>
        LET total     == Len(tasks)
            completed == Cardinality(Completed(tasks))
        IN  /\ ret.val.completionRate \in 0..100
            /\ ret.val.completionRate =
                  IF total = 0 THEN 0 ELSE RoundedPercentage(completed, total)

\* the position in the store of the i-th task of a returned sequence
StorePosition(seq, i) == findIndex(tasks, seq[i].id)

\* seq holds the store's tasks, each of them once
PermutationOfStore(seq) ==
    /\ Len(seq) = Len(tasks)
    /\ \A i \in 1..Len(seq) :
          /\ StorePosition(seq, i) # 0
          /\ seq[i] = tasks[StorePosition(seq, i)]
    /\ \A i, j \in 1..Len(seq) :
          i # j => StorePosition(seq, i) # StorePosition(seq, j)

\* C11: getTasksByPriority('desc') (also with the argument left out) returns
\* a permutation of the store's tasks in which the rank of the priority
\* (high 3, medium 2, low 1, anything else 0) never increases and tasks of
\* equal rank keep their store order; the call leaves the store as it was.
PriorityDescStableAndPure ==
    [][ (op' = "getTasksByPriority"
         /\ ("order" \in DOMAIN args' => args'.order = "desc")) =>
          LET sorted == ret'.val IN
          /\ ~ret'.threw
          /\ PermutationOfStore(sorted)
          /\ \A i \in 1..(Len(sorted) - 1) :
                priorityRank(sorted[i].priority)
                    >= priorityRank(sorted[i + 1].priority)
          /\ \A i, j \in 1..Len(sorted) :
                (i < j /\ priorityRank(sorted[i].priority)
                            = priorityRank(sorted[j].priority))
                    => StorePosition(sorted, i) < StorePosition(sorted, j)
          /\ tasks' = tasks /\ nextId' = nextId ]_vars

\* C11 witness: the store holds low, high, low, high and the descending
\* sort returned high(2), high(4), low(1), low(3).
LowHighLowHighSorted ==
    /\ op = "getTasksByPriority" /\ args = [order |-> "desc"]
    /\ Len(tasks) = 4
    /\ [i \in 1..4 |-> tasks[i].priority]
          = << <<"l","o","w">>, <<"h","i","g","h">>,
               <<"l","o","w">>, <<"h","i","g","h">> >>
    /\ [i \in 1..4 |-> ret.val[i].id] = <<2, 4, 1, 3>>

\* the positions of the store's tasks whose status is s
WithStatus(s) == {i \in 1..Len(tasks) : tasks[i].status = s}

\* the k-th smallest member of a set of positions
NthOf(positions, k) ==
    CHOOSE i \in positions : Cardinality({j \in positions : j < i}) = k - 1

\* C12: getTasks('all') (also with the argument left out) returns every task
\* in store order; getTasks(s) returns exactly the tasks of status s in
\* store order, none when no task has status s; the store's task sequence
\* and nextId are as they were before the call.
GetTasksFiltersInStoreOrder ==
    [][ op' = "getTasks" =>
          LET s   == IF "status" \in DOMAIN args' THEN args'.status ELSE "all"
              got == ret'.val
          IN  /\ ~ret'.threw
              /\ s = "all" => got = tasks
              /\ s # "all" =>
                    /\ Len(got) = Cardinality(WithStatus(s))
                    /\ \A k \in 1..Len(got) :
                          got[k] = tasks[NthOf(WithStatus(s), k)]
              /\ tasks' = tasks /\ nextId' = nextId ]_vars

\* C12 witness: of three tasks the second is completed; getTasks('pending')
\* returned the first and the third, in that order.
PendingTasksAroundCompletedOne ==
    /\ op = "getTasks" /\ args = [status |-> "pending"]
    /\ Len(tasks) = 3
    /\ tasks[2].status = "completed"
    /\ Len(ret.val) = 2
    /\ ret.val[1] = tasks[1] /\ ret.val[2] = tasks[3]

\* the values that have a JSON text: of the values saved, all but undefined
JsonSerializable(v) == typeOf(v) # "undefined"

\* the text stored under the storage key, Null if there is none
StoredText == getItem(localStorage, storageKey)

\* the serializable values whose JSON text is the text stored
ValuesStored ==
    { v \in SaveInputs :
        JsonSerializable(v) /\ StoredText = Some(stringify(v)) }

\* C13: for a JSON-serializable X, on an adapter that found the substrate
\* available and with a substrate that accepts the write, save(X) returns
\* true, and a load() that follows it immediately returns X itself, nothing
\* of an earlier snapshot.
SaveThenLoadReturnsSaved ==
    [][ /\ (op' = "save" /\ JsonSerializable(args'.data) /\ isAvailable
            /\ accepts(localStorage, storageKey, stringify(args'.data)))
           => ret' = Returned(TRUE)
        /\ (op = "save" /\ JsonSerializable(args.data) /\ ret = Returned(TRUE)
            /\ op' = "load")
           => ret' = Returned(args.data) ]_vars

\* C13 witness: load() returned the task snapshot (one task, nextId 2) that
\* was saved before it.
SnapshotLoadedAfterSave ==
    /\ op = "load"
    /\ typeOf(ret.val) = "object"
    /\ get(ret.val, "nextId") = JNum(2)
    /\ Len(content(get(ret.val, "tasks"))) = 1

\* C14 as stated: after a successful save(X) of a JSON-serializable X,
\* createBackup() is present and holds X; createBackup() is never absent
\* while the JSON text of a value is stored under the key of a working
\* adapter; restoreFromBackup of a backup holding X,
\* on a substrate that accepts the write, returns true, and the load() that
\* follows returns X, also when the key was cleared in between.
BackupRestoresSavedValue ==
    [][ /\ (op = "save" /\ JsonSerializable(args.data) /\ ret = Returned(TRUE)
            /\ op' = "createBackup")
           => /\ ret'.val # JNull
              /\ get(ret'.val, "data") = args.data
        /\ (op' = "createBackup" /\ isAvailable /\ storageEnabled
            /\ ValuesStored # {})
           => ret'.val # JNull
        /\ (op' = "restoreFromBackup"
            /\ \E t \in Times, X \in SaveInputs :
                  JsonSerializable(X) /\ args'.backup = newBackup(t, X)
            /\ isAvailable
            /\ accepts(localStorage, storageKey,
                       stringify(get(args'.backup, "data"))))
           => ret' = Returned(TRUE)
        /\ (op = "restoreFromBackup" /\ ret = Returned(TRUE) /\ op' = "load")
           => ret' = Returned(get(args.backup, "data")) ]_vars

\* C15: save(data) returns false and throws nothing when the adapter found
\* the substrate unavailable or the substrate rejects the write (disabled,
\* or over its quota); the storage is then left as it was.
RejectedSaveKeepsStoredValue ==
    [][ (op' = "save"
         /\ (~isAvailable
             \/ ~accepts(localStorage, storageKey, serialized(args'.data)))) =>
          /\ ret' = Returned(FALSE)
          /\ localStorage' = localStorage ]_vars

\* C15 witness: a save was rejected for the quota alone, and the value
\* stored before it is still there.
SaveOverQuotaKeptOldValue ==
    /\ op = "save" /\ ret = Returned(FALSE)
    /\ isAvailable /\ storageEnabled
    /\ StoredText = Some(stringify(JNum(0)))

\* C16: load() throws nothing and changes nothing in the substrate; it
\* returns null when the adapter found the substrate unavailable, when the
\* substrate is disabled, when nothing is stored under the key (as right
\* after a successful clear()) and when the stored text is not the JSON text
\* of any value; in every other case it returns the value whose JSON text
\* is stored.
LoadReturnsStoredValueOrNull ==
    [][ op' = "load" =>
          /\ ~ret'.threw
          /\ localStorage' = localStorage
          /\ IF isAvailable /\ storageEnabled /\ ValuesStored # {}
             THEN ret'.val \in ValuesStored
             ELSE ret'.val = JNull
          /\ (op = "clear" /\ ret = Returned(TRUE)) => ret'.val = JNull ]_vars

\* C16 witness: load() returned null although a text is stored under the
\* key of a working adapter: the text is no JSON text.
InvalidTextLoadedAsNull ==
    /\ op = "load" /\ ret = Returned(JNull)
    /\ isAvailable /\ storageEnabled
    /\ StoredText # Null

\* C17 as stated: restoreFromBackup(backup) returns false and leaves the
\* storage as it was when backup is absent or has no data field; otherwise
\* it returns what save(backup.data) returns and leaves the storage
\* save(backup.data) leaves.
RestoreIsSaveOfBackupData ==
    [][ op' = "restoreFromBackup" =>
          LET backup == args'.backup IN
          IF typeOf(backup) \in {"null", "undefined"}
             \/ typeOf(get(backup, "data")) = "undefined"
          THEN /\ ret' = Returned(FALSE)
               /\ localStorage' = localStorage
          ELSE LET saving == saveOutcome(storageManager[1], get(backup, "data"))
               IN  /\ ret' = Returned(saving.ok)
                   /\ localStorage' = saving.store ]_vars

\* C18: the availability flag of the adapter never changes after
\* construction, and an adapter that found the substrate unavailable returns
\* false from save and clear and null from load, and writes nothing, on
\* every later call, whatever the substrate has become.
AvailabilityFixedAtConstruction ==
    [][ /\ storageManager' = storageManager
        /\ ~isAvailable =>
              /\ op' \in {"save", "clear"} => ret' = Returned(FALSE)
              /\ op' = "load" => ret' = Returned(JNull)
              /\ localStorage' = localStorage ]_vars

\* C18 witness: save returned false on an adapter constructed while the
\* substrate was disabled, after the substrate had become usable.
SaveRefusedAfterSubstrateCameBack ==
    /\ op = "save" /\ ret = Returned(FALSE)
    /\ ~isAvailable
    /\ storageEnabled
    /\ quota = QuotaLarge

\* the snapshot read back from the text stored under the storage key
PersistedSnapshot(store) == parse(store[storageKey]).val

PersistedTasks(store) == tasksOf(get(PersistedSnapshot(store), "tasks"))

PersistedNextId(store) == content(get(PersistedSnapshot(store), "nextId"))

\* C19: with auto-save on, an adapter that found the substrate available
\* and a substrate that accepts the write, after addTask, a completeTask or
\* deleteTask that returned true, clearAllTasks and an importFromFile that
\* returned true the snapshot stored holds the tasks and the nextId of the
\* store; a completeTask or deleteTask that returned false wrote nothing.
AutoSavedSnapshotEqualsStore ==
    [][ /\ ( /\ \/ op' = "addTask" /\ ~ret'.threw
                \/ op' \in {"completeTask", "deleteTask", "importFromFile"}
                      /\ ret' = Returned(TRUE)
                \/ op' = "clearAllTasks"
             /\ autoSave = Some(TRUE)
             /\ isAvailable
             /\ accepts(localStorage, storageKey,
                        stringify(snapshot(tasks', nextId', now'))) )
           => /\ storageKey \in DOMAIN localStorage'
              /\ PersistedTasks(localStorage') = tasks'
              /\ PersistedNextId(localStorage') = nextId'
        /\ (op' \in {"completeTask", "deleteTask"} /\ ret' = Returned(FALSE))
           => localStorage' = localStorage ]_vars

\* C19 witness: one of two tasks was deleted, and the snapshot stored holds
\* the task that is left and the nextId 3.
SnapshotFollowsDelete ==
    /\ op = "deleteTask" /\ ret = Returned(TRUE)
    /\ Len(tasks) = 1 /\ nextId = 3
    /\ storageKey \in DOMAIN localStorage
    /\ PersistedTasks(localStorage) = tasks
    /\ PersistedNextId(localStorage) = 3

\* C20 as stated: a PersistentTaskManager constructed after an earlier one
\* whose auto-save was on at every change, with the substrate available,
\* starts with the tasks and the nextId the earlier one had; with nothing
\* stored under the key it starts empty with nextId 1.
NewManagerStartsWhereEarlierStopped ==
    [][ op' = "newPersistentTaskManager" =>
          /\ (autoSave = Some(TRUE) /\ ~unsaved.skipped
              /\ isAvailable /\ storageEnabled)
             => (tasks' = tasks /\ nextId' = nextId)
          /\ StoredText = Null => (tasks' = <<>> /\ nextId' = 1) ]_vars

\* C20, amended: the same, for an earlier manager none of whose writes the
\* substrate rejected.
NewManagerStartsWhereSavedOneStopped ==
    [][ op' = "newPersistentTaskManager" =>
          /\ (autoSave = Some(TRUE) /\ ~unsaved.skipped /\ ~unsaved.failed
              /\ isAvailable /\ storageEnabled)
             => (tasks' = tasks /\ nextId' = nextId)
          /\ StoredText = Null => (tasks' = <<>> /\ nextId' = 1) ]_vars

\* C20 witness: a new manager started with one completed task and nextId 3,
\* what the snapshot stored by the earlier manager holds.
NewManagerLoadedSnapshot ==
    /\ op = "newPersistentTaskManager"
    /\ Len(tasks) = 1 /\ tasks[1].status = "completed" /\ nextId = 3
    /\ unsaved = [skipped |-> FALSE, failed |-> FALSE]
    /\ PersistedTasks(localStorage) = tasks

\* the fields of the instance that saved last
LastSaver == IF savedBy = Some(instance) THEN fields ELSE standby[1]

\* C21: two PersistentTaskManagers share the default key and their addTask,
\* completeTask, deleteTask and clearAllTasks calls interleave in any order.
\* Once one of them has saved, the snapshot stored holds exactly the tasks
\* and the nextId the instance that saved last has in memory, whatever the
\* other instance holds; and no call reports a conflict: each returns its
\* normal result, and addTask throws for a missing title only.
SnapshotIsLastSaversState ==
    /\ savedBy # Null =>
          /\ PersistedTasks(localStorage) = LastSaver.tasks
          /\ PersistedNextId(localStorage) = LastSaver.nextId
    /\ ret.threw => op = "addTask" /\ titleMissing(args)

\* C21 witness: the first instance completed its task after the second one
\* had loaded it; the second then added a task and saved last: the stored
\* snapshot has the first task pending, the completion is lost.
CompletionLostToLaterSave ==
    /\ standby # Null
    /\ instance = 2
    /\ savedBy = Some(2)
    /\ Len(standby[1].tasks) = 1
    /\ standby[1].tasks[1].status = "completed"
    /\ Len(tasks) = 2
    /\ PersistedTasks(localStorage) = tasks
    /\ PersistedTasks(localStorage)[1].status = "pending"

\* what the text of a file is as JSON, null if the file is absent, cannot
\* be read or holds no JSON text
ValueIn(file) ==
    IF file # Null /\ file[1].readable /\ ~parse(file[1].text).threw
    THEN parse(file[1].text).val
    ELSE JNull

\* the i-th importData call has returned its promise
ReturnedAt(i) == i <= Len(readers)

\* the promise of the i-th importData call is fulfilled
FulfilledAt(i) == i <= Len(readers) /\ readers[i].promise[1] = "fulfilled"

\* C22: the promise importData(file) returns, for a file that is a File or
\* Blob or is absent, is fulfilled in the end and never rejected: with the
\* value parsed if the file is read and its text is JSON, with null if the
\* file is absent, cannot be read or its text is not JSON; and neither
\* importData nor the handlers of its FileReader change the substrate or a
\* task store.
ImportPromiseResolves ==
    /\ [](\A i \in 1..Len(readers) :
            /\ readers[i].promise[1] \in {"pending", "fulfilled"}
            /\ readers[i].promise[1] = "fulfilled" =>
                  readers[i].promise[2] = ValueIn(readers[i].file))
    /\ \A i \in 1..MaxImports : (ReturnedAt(i) ~> FulfilledAt(i))
    /\ [][op' \in {"importData", "onload", "onerror"} =>
            /\ localStorage' = localStorage
            /\ tasks' = tasks
            /\ nextId' = nextId]_vars

\* C22 witness: with a value stored, a file that could not be read and a
\* file whose text is not JSON both gave null, the second after its load
\* event.
UnreadableAndInvalidGaveNull ==
    /\ Len(readers) = 2
    /\ DefaultStorageKey \in DOMAIN localStorage
    /\ readers[1].file # Null
    /\ readers[2].file # Null
    /\ ~readers[1].file[1].readable
    /\ readers[2].file[1].readable
    /\ parse(readers[2].file[1].text).threw
    /\ readers[1].promise = Fulfilled(JNull)
    /\ readers[2].promise = Fulfilled(JNull)
    /\ op = "onload"

\* the size of the text stored under the key of the adapter, 0 without one
StoredSize(store) ==
    IF storageKey \in DOMAIN store THEN Len(store[storageKey]) ELSE 0

\* C23 as stated: whenever the substrate is available (the adapter found it
\* so and it is enabled), getStorageInfo() returns available = true and
\* dataSize equal to the size of the text stored under the storage key, 0
\* when nothing is stored there.
StorageInfoReportsSize ==
    [][op' = "getStorageInfo" /\ isAvailable /\ storageEnabled =>
            /\ ret'.val.available
            /\ ret'.val.dataSize = StoredSize(localStorage)]_vars

\* C24 as stated: when getStorageInfo() returns, the scratch key
\* '__capacity_test__' is not present in the substrate, whatever the
\* capacity and whatever was stored before.
CapacityProbeDiscarded ==
    [][op' = "getStorageInfo" => CapacityKey \notin DOMAIN localStorage']_vars

\* C29 as stated: a save(D) that would succeed before a getStorageInfo()
\* call succeeds right after it as well, and the call leaves the text
\* stored under the storage key of the adapter as it is.
SaveStillSucceedsAfterStorageInfo ==
    [][op' = "getStorageInfo" =>
            /\ \A data \in SaveInputs :
                  saveOutcome(storageManager[1], data).ok =>
                      saveOutcome(storageManager[1], data).ok'
            /\ getItem(localStorage', storageKey) = getItem(localStorage, storageKey)
      ]_vars

\* C25 as stated: whenever the substrate accepts the write, forceSave()
\* returns true and leaves the tasks and nextId of the store as the
\* snapshot stored, whether auto-save is on or off.
ForceSaveWritesWhateverAutoSave ==
    [][op' = "forceSave" /\ isAvailable
          /\ accepts(localStorage, storageKey,
                     serialized(snapshot(tasks, nextId, now))) =>
            /\ ret'.val = JBool(TRUE)
            /\ storageKey \in DOMAIN localStorage'
            /\ PersistedTasks(localStorage') = tasks
            /\ PersistedNextId(localStorage') = nextId]_vars

\* a member of the task list is valid: its id is a number other than 0, its
\* title a string that is not empty, its priority low, medium or high and
\* its status pending or completed
ValidTask(v) ==
    /\ typeOf(get(v, "id")) = "number" /\ content(get(v, "id")) # 0
    /\ typeOf(get(v, "title")) = "string" /\ content(get(v, "title")) # <<>>
    /\ get(v, "priority") \in
          { JStr(<<"l","o","w">>), JStr(<<"m","e","d","i","u","m">>),
            JStr(<<"h","i","g","h">>) }
    /\ get(v, "status") \in { JStr(StatusChars.pending), JStr(StatusChars.completed) }

\* C26 as stated: getDataIntegrityReport() always returns a report with
\* totalTasks = validTasks + invalidTasks, totalTasks the length of the task
\* list, validTasks the number of valid tasks and one issues entry for each
\* invalid task; and it changes neither the store nor the substrate.
IntegrityReportCountsEveryTask ==
    [][op' = "getDataIntegrityReport" =>
            /\ ~ret'.threw
            /\ ret'.val.totalTasks = Len(tasks)
            /\ ret'.val.totalTasks = ret'.val.validTasks + ret'.val.invalidTasks
            /\ ret'.val.validTasks =
                  Cardinality({i \in 1..Len(tasks) : ValidTask(tasks[i])})
            /\ Len(ret'.val.issues) = ret'.val.invalidTasks
            /\ \A i \in 1..Len(tasks) :
                  ~ValidTask(tasks[i]) <=>
                      \E k \in 1..Len(ret'.val.issues) :
                          ret'.val.issues[k].taskIndex = i - 1
            /\ tasks' = tasks
            /\ nextId' = nextId
            /\ localStorage' = localStorage]_vars

\* the tasks addTask, completeTask or deleteTask of the TaskManager leaves,
\* given the arguments a and the clock reading t
TasksAfter(name, a, t) ==
    IF name = "addTask" THEN Append(tasks, newTask(nextId, a, t))
    ELSE IF name = "completeTask"
    THEN [tasks EXCEPT ![findIndex(tasks, a.id)].status = "completed",
                       ![findIndex(tasks, a.id)].completedAt = Some(t)]
    ELSE splice(tasks, findIndex(tasks, a.id))

\* the call changes the store of a TaskManager
Changes(name, a) ==
    IF name = "addTask" THEN ~titleMissing(a) ELSE findIndex(tasks, a.id) # 0

\* C27: when the substrate rejects the write of saveData (the adapter found
\* the substrate unavailable at construction, or the quota is exceeded),
\* addTask, completeTask and deleteTask of a PersistentTaskManager change
\* the store in memory as those of a TaskManager do and return the same
\* result without throwing, and the text stored stays as it was; only
\* saveData had false from save.
RejectedWriteKeepsMemoryChange ==
    [][/\ op' \in {"addTask", "completeTask", "deleteTask"}
       /\ Changes(op', args')
       /\ autoSave = Some(TRUE)
       /\ ~saveOutcome(storageManager[1],
                       snapshot(TasksAfter(op', args', now'),
                                IF op' = "addTask" THEN nextId + 1 ELSE nextId,
                                now')).ok
       =>
       /\ tasks' = TasksAfter(op', args', now')
       /\ nextId' = IF op' = "addTask" THEN nextId + 1 ELSE nextId
       /\ ~ret'.threw
       /\ ret'.val = IF op' = "addTask" THEN newTask(nextId, args', now') ELSE TRUE
       /\ localStorage' = localStorage
       /\ unsaved'.failed]_vars

\* C27 witness: the substrate had room for the snapshot of one task but not
\* of two; the second addTask returned its task, the store holds two tasks
\* and the snapshot stored still holds the first one only.
SecondAddKeptInMemoryOnly ==
    /\ op = "addTask"
    /\ ~ret.threw
    /\ ret.val.id = 2
    /\ Len(tasks) = 2
    /\ unsaved.failed
    /\ isAvailable
    /\ storageKey \in DOMAIN localStorage
    /\ Len(PersistedTasks(localStorage)) = 1
    /\ PersistedNextId(localStorage) = 2

\* C28 as stated: an addTask that follows an importFromFile that returned
\* true returns an id that no task in the store has, whether the file had
\* a nextId field or not; and an importFromFile that returns false leaves
\* tasks, nextId and the snapshot stored as they were.
IdsUniqueAfterImport ==
    [][/\ op = "importFromFile" /\ ret.val /\ op' = "addTask" /\ ~ret'.threw =>
            \A i \in 1..Len(tasks) : tasks[i].id # ret'.val.id
       /\ op' = "importFromFile" /\ ~ret'.val =>
            /\ tasks' = tasks
            /\ nextId' = nextId
            /\ localStorage' = localStorage]_vars

\* C30 as stated: importTasks of the file exportTasks made of the store as
\* it is leaves a store with as many tasks, in the same order, each with
\* the title, description, priority and status it had, for every store
\* addTask, completeTask and deleteTask lead to.
ExportThenImportReproducesTasks ==
    [][op' = "importTasks"
          /\ download = File(TRUE, stringify(tasksValue(tasks))) =>
            /\ Len(tasks') = Len(tasks)
            /\ \A i \in 1..Len(tasks) :
                  /\ tasks'[i].title = tasks[i].title
                  /\ tasks'[i].description = tasks[i].description
                  /\ tasks'[i].priority = tasks[i].priority
                  /\ tasks'[i].status = tasks[i].status]_vars

=============================================================================
